---- MODULE Spec2Model ----
(***************************************************************************)
(* A model of SchemaViz (msjia/CIF-ER): the DDL extractor parseSQL, the    *)
(* App component that runs it, and the ERDiagram component that infers     *)
(* relationship edges and derives the highlight state.                     *)
(*                                                                         *)
(* Text is a sequence of one-character strings, so that the regular        *)
(* expressions and string scans of parseSQL are computed character by      *)
(* character.  JavaScript values that are not booleans everywhere          *)
(* (undefined, null) are written as the strings "undefined", "null",       *)
(* "true", "false".                                                        *)
(***************************************************************************)
EXTENDS Integers, Sequences, FiniteSets, TLC

(***************************************************************************)
(* Characters and the string primitives of JavaScript used by the code.    *)
(***************************************************************************)
LowerChars == <<"a","b","c","d","e","f","g","h","i","j","k","l","m","n","o","p","q","r","s","t","u","v","w","x","y","z">>

UpperChars == <<"A","B","C","D","E","F","G","H","I","J","K","L","M","N","O","P","Q","R","S","T","U","V","W","X","Y","Z">>

LowerSet == {LowerChars[ix] : ix \in 1..Len(LowerChars)}

UpperSet == {UpperChars[ix] : ix \in 1..Len(UpperChars)}

DigitSet == {"0","1","2","3","4","5","6","7","8","9"}

\* the character U+0060 (a string of the module cannot hold it)
BackTick == "BACKTICK"

\* \w of a JavaScript regular expression
WordChars == LowerSet \cup UpperSet \cup DigitSet \cup {"_"}

\* \s of a JavaScript regular expression, and what trim() removes
WhiteSpace == {" ", "\n", "\t", "\r"}

UpperMap == [c \in LowerSet |-> UpperChars[CHOOSE ix \in 1..Len(LowerChars) : LowerChars[ix] = c]]

\* the canonical form of a character under the i flag / toUpperCase()
UpChar(c) == IF c \in LowerSet THEN UpperMap[c] ELSE c

toUpperCase(s) == [ix \in 1..Len(s) |-> UpChar(s[ix])]

Min(S) == CHOOSE x \in S : \A y \in S : x <= y

\* String.indexOf(c, from) on 1-based positions; 0 stands for -1
indexOf(s, c, from) ==
  IF \A q \in from..Len(s) : s[q] # c THEN 0
  ELSE CHOOSE q \in from..Len(s) : s[q] = c /\ \A r \in from..(q - 1) : s[r] # c

\* the first position >= p whose character is not in S (Len(s)+1 if none):
\* where a greedy S* that starts at p ends
SkipIn(s, p, S) ==
  IF p > Len(s) THEN Len(s) + 1
  ELSE CHOOSE q \in p..(Len(s) + 1) :
         /\ q = Len(s) + 1 \/ s[q] \notin S
         /\ \A r \in p..(q - 1) : s[r] \in S

\* String.startsWith at position p (case-sensitive)
LitAt(s, p, lit) ==
  /\ p >= 1
  /\ p + Len(lit) - 1 <= Len(s)
  /\ \A k \in 1..Len(lit) : s[p + k - 1] = lit[k]

\* a literal of a regular expression with the i flag, at position p
LitAtCI(s, p, lit) ==
  /\ p >= 1
  /\ p + Len(lit) - 1 <= Len(s)
  /\ s[p] = lit[1] \/ UpChar(s[p]) = UpChar(lit[1])
  /\ \A k \in 2..Len(lit) : UpChar(s[p + k - 1]) = UpChar(lit[k])

startsWith(s, lit) == LitAt(s, 1, lit)

\* String.substring(a, b) with 0-based a, b: characters a+1 .. b
substring(s, a, b) == SubSeq(s, a + 1, b)

\* String.trim()
trim(s) ==
  LET I == {q \in 1..Len(s) : s[q] \notin WhiteSpace}
  IN IF I = {} THEN << >>
     ELSE SubSeq(s, Min(I), CHOOSE x \in I : \A y \in I : y <= x)

\* String.replace(/c/g, '')
RemoveChar(s, c) == SelectSeq(s, LAMBDA x : x # c)

\* String.split(c) for a one-character separator
RECURSIVE SplitFrom(_, _, _)
SplitFrom(s, c, from) ==
  LET q == indexOf(s, c, from)
  IN IF q = 0 THEN << SubSeq(s, from, Len(s)) >>
     ELSE << SubSeq(s, from, q - 1) >> \o SplitFrom(s, c, q + 1)

split(s, c) == SplitFrom(s, c, 1)

(***************************************************************************)
(* The literals of parseSQL.                                               *)
(***************************************************************************)
kwCREATE == <<"C","R","E","A","T","E">>

kwTABLE == <<"T","A","B","L","E">>

kwPRIMARY_KEY == <<"P","R","I","M","A","R","Y"," ","K","E","Y">>

kwCOMMENT == <<"C","O","M","M","E","N","T">>

kwNOT_NULL == <<"N","O","T"," ","N","U","L","L">>

\* the prefixes that make parseSQL skip a trimmed body line
SkipPrefixes ==
  { kwPRIMARY_KEY,
    <<"K","E","Y">>,
    <<"I","N","D","E","X">>,
    <<"U","N","I","Q","U","E">>,
    <<"C","O","N","S","T","R","A","I","N","T">>,
    <<"F","O","R","E","I","G","N"," ","K","E","Y">>,
    <<"-","-">>,
    <<"/","*">>,
    <<"P","A","R","T","I","T","I","O","N">> }

\* the column names that are really key definitions
KeywordNames ==
  { <<"K","E","Y">>,
    <<"P","R","I","M","A","R","Y">>,
    <<"I","N","D","E","X">>,
    <<"U","N","I","Q","U","E">>,
    <<"C","O","N","S","T","R","A","I","N","T">>,
    <<"F","O","R","E","I","G","N">>,
    <<"C","H","E","C","K">> }

strUnknown == <<"u","n","k","n","o","w","n">>

(***************************************************************************)
(* parseSQL, step by step.                                                 *)
(***************************************************************************)

\* /CREATE\s+TABLE/i at position p: the position after the match, or 0
CreateTableEnd(s, p) ==
  IF LitAtCI(s, p, kwCREATE) /\ p + 6 <= Len(s) /\ s[p + 6] \in WhiteSpace
  THEN LET q == SkipIn(s, p + 6, WhiteSpace)
       IN IF LitAtCI(s, q, kwTABLE) THEN q + 5 ELSE 0
  ELSE 0

\* sql.split(/CREATE\s+TABLE/i), from position from on
RECURSIVE SplitBlocks(_, _)
SplitBlocks(s, from) ==
  IF \A p \in from..Len(s) : CreateTableEnd(s, p) = 0
  THEN << SubSeq(s, from, Len(s)) >>
  ELSE LET m == CHOOSE p \in from..Len(s) :
                  /\ CreateTableEnd(s, p) # 0
                  /\ \A r \in from..(p - 1) : CreateTableEnd(s, r) = 0
       IN << SubSeq(s, from, m - 1) >> \o SplitBlocks(s, CreateTableEnd(s, m))

tableBlocks(text) == SplitBlocks(text, 1)

\* the identifier expression  ^\s* BACKTICK? (\w+) BACKTICK?  of nameMatch (skipWs)
\* and the same without the leading \s* of colNameMatch:
\* [found, name (group 1), len (length of the whole match)]
IdentMatch(s, skipWs) ==
  LET p  == IF skipWs THEN SkipIn(s, 1, WhiteSpace) ELSE 1
      p2 == IF p <= Len(s) /\ s[p] = BackTick THEN p + 1 ELSE p
      q  == SkipIn(s, p2, WordChars)
  IN IF q = p2
     THEN [found |-> FALSE, name |-> << >>, len |-> 0]
     ELSE [found |-> TRUE,
           name  |-> SubSeq(s, p2, q - 1),
           len   |-> IF q <= Len(s) /\ s[q] = BackTick THEN q ELSE q - 1]

nameMatch(block) == IdentMatch(block, TRUE)

colNameMatch(line) == IdentMatch(line, FALSE)

\* block.indexOf('('), 1-based, 0 when there is none
firstParenIndex(block) == indexOf(block, "(", 1)

\* a scan that stops at the first ')' after firstParenIndex
lastParenIndexFirstClose(block) == indexOf(block, ")", firstParenIndex(block) + 1)

\* a scan that takes the end of the block when the count never returns to 0
lastParenIndexOrEnd(block) ==
  LET first  == firstParenIndex(block)
      opens  == {j \in (first + 1)..Len(block) : block[j] = "("}
      closes == {j \in (first + 1)..Len(block) : block[j] = ")"}
      Z == {k \in closes : 1 + Cardinality({j \in opens : j <= k})
                             - Cardinality({j \in closes : j <= k}) = 0}
  IN IF Z = {} THEN Len(block) ELSE Min(Z)

\* the loop over the characters after firstParenIndex: parenCount starts at
\* 1, +1 on each '(' and -1 on each ')'; the loop stops at the first k where
\* it is 0 (which can only be at a ')'); 0 (for -1) when the block ends first
lastParenIndex(block) ==
  LET first  == firstParenIndex(block)
      opens  == {j \in (first + 1)..Len(block) : block[j] = "("}
      closes == {j \in (first + 1)..Len(block) : block[j] = ")"}
      parenCount(k) == 1 + Cardinality({j \in opens : j <= k})
                         - Cardinality({j \in closes : j <= k})
      Z == {k \in closes : parenCount(k) = 0}
  IN IF Z = {} THEN 0 ELSE Min(Z)

\* block.substring(firstParenIndex + 1, lastParenIndex)
bodyOf(block) == SubSeq(block, firstParenIndex(block) + 1, lastParenIndex(block) - 1)

\* block.substring(lastParenIndex + 1)
afterBodyOf(block) == SubSeq(block, lastParenIndex(block) + 1, Len(block))

\* one regular expression  LIT \s{min,} [SEP \s*] OPEN ([^CLOSE]+) CLOSE  with
\* the i flag, tried at position p: the positions of the group, or none
GroupAt(s, p, lit, minWs, sep, open, close) ==
  IF ~LitAtCI(s, p, lit) THEN [found |-> FALSE, from |-> 0, to |-> 0]
  ELSE LET a == p + Len(lit)
           b == SkipIn(s, a, WhiteSpace)
           c == IF sep = "" THEN b
                ELSE IF b <= Len(s) /\ s[b] = sep THEN SkipIn(s, b + 1, WhiteSpace)
                ELSE 0
           e == IF c >= 1 /\ c <= Len(s) /\ s[c] = open THEN indexOf(s, close, c + 1) ELSE 0
       IN IF b - a >= minWs /\ c >= 1 /\ e > c + 1
          THEN [found |-> TRUE, from |-> c + 1, to |-> e - 1]
          ELSE [found |-> FALSE, from |-> 0, to |-> 0]

\* String.match of such an expression: group 1 of the leftmost match
GroupMatch(s, lit, minWs, sep, open, close) ==
  IF \A p \in 1..Len(s) : ~GroupAt(s, p, lit, minWs, sep, open, close).found
  THEN [found |-> FALSE, group |-> << >>]
  ELSE LET m == CHOOSE p \in 1..Len(s) :
                  /\ GroupAt(s, p, lit, minWs, sep, open, close).found
                  /\ \A r \in 1..(p - 1) : ~GroupAt(s, r, lit, minWs, sep, open, close).found
           g == GroupAt(s, m, lit, minWs, sep, open, close)
       IN [found |-> TRUE, group |-> SubSeq(s, g.from, g.to)]

\* afterBody.match(/COMMENT\s*=\s*'([^']+)'/i)
tableCommentMatch(after) == GroupMatch(after, kwCOMMENT, 0, "=", "'", "'")

tableComment(after) ==
  IF tableCommentMatch(after).found THEN tableCommentMatch(after).group ELSE << >>

\* body.match(/PRIMARY KEY\s*\(([^)]+)\)/i)
pkLineMatch(b) == GroupMatch(b, kwPRIMARY_KEY, 0, "", "(", ")")

\* an entry that is only trimmed
pkTokenKeepingQuotes(s) == trim(s)

\* s.trim() with every backtick and every single quote removed
pkToken(s) == RemoveChar(RemoveChar(trim(s), BackTick), "'")

\* the Set primaryKeys after the pre-scan of the body
primaryKeys(b) ==
  LET pkLine == pkLineMatch(b)
  IN IF pkLine.found
     THEN LET pkCols == split(pkLine.group, ",")
          IN {pkToken(pkCols[ix]) : ix \in 1..Len(pkCols)}
     ELSE {}

\* body.split('\n')
rawLines(b) == split(b, "\n")

\* the test that makes the column loop return early on a (trimmed) line
SkippedLine(line) ==
  \/ line = << >>
  \/ \E pre \in SkipPrefixes : startsWith(line, pre)

\* a type that is the whole text after the column name
colTypeToEnd(remaining) == remaining

\* remaining.match(/^(\w+(?:\([^)]+\))?)/), 'unknown' when it fails
colType(remaining) ==
  LET w == SkipIn(remaining, 1, WordChars)
      e == IF w <= Len(remaining) /\ remaining[w] = "(" THEN indexOf(remaining, ")", w + 1) ELSE 0
  IN IF w = 1 THEN strUnknown
     ELSE IF e > w + 1 THEN SubSeq(remaining, 1, e)
     ELSE SubSeq(remaining, 1, w - 1)

\* line.match(/COMMENT\s+'([^']+)'/i)
colCommentMatch(line) == GroupMatch(line, kwCOMMENT, 1, "", "'", "'")

\* /NOT NULL/i.test(line)
isNotNull(line) == \E p \in 1..Len(line) : LitAtCI(line, p, kwNOT_NULL)

\* the body of rawLines.forEach for one line: the columns it pushes
ColumnsOfLine(rawLine, pks) ==
  LET line == trim(rawLine)
      m    == colNameMatch(line)
  IN IF SkippedLine(line) THEN << >>
     ELSE IF ~m.found THEN << >>
     ELSE IF toUpperCase(m.name) \in KeywordNames THEN << >>
     ELSE << [name         |-> m.name,
              type         |-> colType(trim(SubSeq(line, m.len + 1, Len(line)))),
              comment      |-> IF colCommentMatch(line).found
                               THEN colCommentMatch(line).group ELSE << >>,
              isPrimaryKey |-> m.name \in pks,
              isNullable   |-> ~isNotNull(line)] >>

RECURSIVE ColumnsOfLines(_, _, _)
ColumnsOfLines(lines, ix, pks) ==
  IF ix > Len(lines) THEN << >>
  ELSE ColumnsOfLine(lines[ix], pks) \o ColumnsOfLines(lines, ix + 1, pks)

\* the columns array built from a table body
columns(b) == ColumnsOfLines(rawLines(b), 1, primaryKeys(b))

\* one iteration of the block loop: the tables it pushes (none on continue)
TablesOfBlock(block) ==
  LET nm    == nameMatch(block)
      first == firstParenIndex(block)
      last  == lastParenIndex(block)
  IN IF ~nm.found THEN << >>
     ELSE IF first = 0 THEN << >>
     ELSE IF last = 0 THEN << >>
     ELSE << [id      |-> nm.name,
              name    |-> nm.name,
              comment |-> tableComment(SubSeq(block, last + 1, Len(block))),
              columns |-> columns(SubSeq(block, first + 1, last - 1))] >>

RECURSIVE TablesOfBlocks(_, _)
TablesOfBlocks(blocks, ix) ==
  IF ix > Len(blocks) THEN << >>
  ELSE TablesOfBlock(blocks[ix]) \o TablesOfBlocks(blocks, ix + 1)

\* parseSQL: the blocks after the first, in order
parseSQL(text) == TablesOfBlocks(tableBlocks(text), 2)

(***************************************************************************)
(* ERDiagram: the values of JavaScript that are not texts.                 *)
(***************************************************************************)
\* null where a text may stand (selectedNodeId): a tuple that is no text
null == <<"null">>

(***************************************************************************)
(* ERDiagram: edge inference (the effect on [tables]).                     *)
(***************************************************************************)
IGNORED_FK_COLUMNS ==
  { <<"C","O","M","P","A","N","Y">>,
    <<"T","R","A","N","_","T","I","M","E","S","T","A","M","P">>,
    <<"U","S","E","R","_","I","D">>,
    <<"C","R","E","A","T","E","_","U","S","E","R","_","I","D">>,
    <<"L","A","S","T","_","C","H","A","N","G","E","_","U","S","E","R","_","I","D">>,
    <<"A","P","P","R","_","U","S","E","R","_","I","D">>,
    <<"A","U","T","H","_","U","S","E","R","_","I","D">>,
    <<"C","R","E","A","T","E","_","D","A","T","E">>,
    <<"U","P","D","A","T","E","_","D","A","T","E">>,
    <<"L","A","S","T","_","C","H","A","N","G","E","_","D","A","T","E">>,
    <<"T","R","A","N","_","D","A","T","E">>,
    <<"R","U","N","_","D","A","T","E">>,
    <<"J","O","B","_","R","U","N","_","I","D">>,
    <<"B","A","T","C","H","_","N","O">>,
    <<"R","E","M","A","R","K">>,
    <<"R","E","M","A","R","K","1">>,
    <<"R","E","M","A","R","K","2">>,
    <<"R","E","M","A","R","K","3">>,
    <<"E","R","R","O","R","_","C","O","D","E">>,
    <<"E","R","R","O","R","_","D","E","S","C">> }

strID == <<"I","D">>

strCLIENT_NO == <<"C","L","I","E","N","T","_","N","O">>

strCifClient == <<"c","i","f","_","c","l","i","e","n","t">>

spacingX == 400

spacingY == 400

\* Math.ceil(Math.sqrt(n))
CeilSqrt(n) == Min({k \in 0..n : k * k >= n})

\* getLayoutedNodes: one node per table, in order, on a grid
getLayoutedNodes(tbls) ==
  LET gridColumns == CeilSqrt(Len(tbls)) + 2
  IN [k \in 1..Len(tbls) |->
        [id       |-> tbls[k].id,
         position |-> [x |-> ((k - 1) % gridColumns) * spacingX,
                       y |-> ((k - 1) \div gridColumns) * spacingY],
         label    |-> tbls[k].name,
         comment  |-> tbls[k].comment,
         columns  |-> tbls[k].columns,
         selected |-> "undefined",
         dimmed   |-> "undefined"]]

\* the pairs (table, column) in the order of the two nested forEach loops
RECURSIVE TableColumnPairs(_, _)
TableColumnPairs(tbls, k) ==
  IF k > Len(tbls) THEN << >>
  ELSE [j \in 1..Len(tbls[k].columns) |-> [t |-> tbls[k], c |-> tbls[k].columns[j]]]
       \o TableColumnPairs(tbls, k + 1)

\* a first loop that registers every primary-key column but ID
pkMapSetWithoutExclusion(pkMap, t, c) ==
  IF c.isPrimaryKey /\ toUpperCase(c.name) # strID /\ c.name \notin DOMAIN pkMap
  THEN [n \in DOMAIN pkMap \cup {c.name} |-> IF n = c.name THEN t.id ELSE pkMap[n]]
  ELSE pkMap

\* a first loop that registers the columns that are not primary keys as well
pkMapSetOfAnyColumn(pkMap, t, c) ==
  IF c.name \notin IGNORED_FK_COLUMNS /\ toUpperCase(c.name) # strID /\ c.name \notin DOMAIN pkMap
  THEN [n \in DOMAIN pkMap \cup {c.name} |-> IF n = c.name THEN t.id ELSE pkMap[n]]
  ELSE pkMap

\* a first loop in which every registration replaces the one before
pkMapSetLastWins(pkMap, t, c) ==
  IF c.isPrimaryKey /\ c.name \notin IGNORED_FK_COLUMNS /\ toUpperCase(c.name) # strID
  THEN [n \in DOMAIN pkMap \cup {c.name} |-> IF n = c.name THEN t.id ELSE pkMap[n]]
  ELSE pkMap

\* one step of the first loop: pkMap after (t, c) has been visited
pkMapSet(pkMap, t, c) ==
  IF c.isPrimaryKey /\ c.name \notin IGNORED_FK_COLUMNS /\ toUpperCase(c.name) # strID
  THEN IF c.name = strCLIENT_NO /\ t.name = strCifClient
       THEN [n \in DOMAIN pkMap \cup {c.name} |-> IF n = c.name THEN t.id ELSE pkMap[n]]
       ELSE IF c.name \notin DOMAIN pkMap
       THEN [n \in DOMAIN pkMap \cup {c.name} |-> IF n = c.name THEN t.id ELSE pkMap[n]]
       ELSE pkMap
  ELSE pkMap

RECURSIVE pkMapFrom(_, _, _)
pkMapFrom(pairs, k, pkMap) ==
  IF k > Len(pairs) THEN pkMap
  ELSE pkMapFrom(pairs, k + 1, pkMapSet(pkMap, pairs[k].t, pairs[k].c))

\* the Map pkMap after the first loop: column name -> owning table id
pkMapOf(tbls) == pkMapFrom(TableColumnPairs(tbls, 1), 1, [n \in {} |-> << >>])

\* a second loop that does not compare the owning table with the current one
EdgesOfColumnWithSelfLoops(pkMap, t, c) ==
  IF c.name \in IGNORED_FK_COLUMNS \/ c.name \notin DOMAIN pkMap THEN << >>
  ELSE << [id           |-> <<"e","-">> \o t.id \o <<"-">> \o c.name \o <<"-">> \o pkMap[c.name],
           source       |-> t.id,
           target       |-> pkMap[c.name],
           sourceHandle |-> c.name \o <<"-","s","o","u","r","c","e">>,
           targetHandle |-> c.name \o <<"-","t","a","r","g","e","t">>,
           animated     |-> "false",
           stroke       |-> "#cbd5e1",
           strokeWidth  |-> 1,
           opacity      |-> "undefined",
           type         |-> "smoothstep",
           markerColor  |-> "#94a3b8",
           zIndex       |-> "undefined"] >>

\* a second loop whose edges point from the owning table to the current one
EdgesOfColumnReversed(pkMap, t, c) ==
  IF c.name \in IGNORED_FK_COLUMNS THEN << >>
  ELSE IF c.name \in DOMAIN pkMap /\ pkMap[c.name] # << >> /\ pkMap[c.name] # t.id
  THEN << [id           |-> <<"e","-">> \o t.id \o <<"-">> \o c.name \o <<"-">> \o pkMap[c.name],
           source       |-> pkMap[c.name],
           target       |-> t.id,
           sourceHandle |-> c.name \o <<"-","s","o","u","r","c","e">>,
           targetHandle |-> c.name \o <<"-","t","a","r","g","e","t">>,
           animated     |-> "false",
           stroke       |-> "#cbd5e1",
           strokeWidth  |-> 1,
           opacity      |-> "undefined",
           type         |-> "smoothstep",
           markerColor  |-> "#94a3b8",
           zIndex       |-> "undefined"] >>
  ELSE << >>

\* one step of the second loop: the edges pushed for (t, c)
EdgesOfColumn(pkMap, t, c) ==
  IF c.name \in IGNORED_FK_COLUMNS THEN << >>
  ELSE IF c.name \in DOMAIN pkMap /\ pkMap[c.name] # << >> /\ pkMap[c.name] # t.id
  THEN << [id           |-> <<"e","-">> \o t.id \o <<"-">> \o c.name \o <<"-">> \o pkMap[c.name],
           source       |-> t.id,
           target       |-> pkMap[c.name],
           sourceHandle |-> c.name \o <<"-","s","o","u","r","c","e">>,
           targetHandle |-> c.name \o <<"-","t","a","r","g","e","t">>,
           animated     |-> "false",
           stroke       |-> "#cbd5e1",
           strokeWidth  |-> 1,
           opacity      |-> "undefined",
           type         |-> "smoothstep",
           markerColor  |-> "#94a3b8",
           zIndex       |-> "undefined"] >>
  ELSE << >>

\* a second loop that keeps one edge for each pair of tables
RECURSIVE EdgesFromDeduplicated(_, _, _)
EdgesFromDeduplicated(pairs, k, pkMap) ==
  IF k > Len(pairs) THEN << >>
  ELSE LET new  == EdgesOfColumn(pkMap, pairs[k].t, pairs[k].c)
           rest == EdgesFromDeduplicated(pairs, k + 1, pkMap)
       IN IF new # << >> /\ \E r \in 1..Len(rest) : rest[r].source = new[1].source /\ rest[r].target = new[1].target
          THEN rest
          ELSE new \o rest

RECURSIVE EdgesFrom(_, _, _)
EdgesFrom(pairs, k, pkMap) ==
  IF k > Len(pairs) THEN << >>
  ELSE EdgesOfColumn(pkMap, pairs[k].t, pairs[k].c) \o EdgesFrom(pairs, k + 1, pkMap)

\* the array newEdges after the second loop
newEdges(tbls) == EdgesFrom(TableColumnPairs(tbls, 1), 1, pkMapOf(tbls))

(***************************************************************************)
(* ERDiagram: the topology fingerprint and the memoised adjacency.         *)
(***************************************************************************)
\* the printable ASCII characters in code order, U+0020 .. U+007E
AsciiChars == <<" ","!","\"","#","$","%","&","'","(",")","*","+",",","-",".","/","0","1","2","3","4","5","6","7","8","9",":",";","<","=",">","?","@","A","B","C","D","E","F","G","H","I","J","K","L","M","N","O","P","Q","R","S","T","U","V","W","X","Y","Z","[","\\","]","^","_",BackTick,"a","b","c","d","e","f","g","h","i","j","k","l","m","n","o","p","q","r","s","t","u","v","w","x","y","z","{","|","}","~">>

AsciiSet == {AsciiChars[ix] : ix \in 1..Len(AsciiChars)}

\* the UTF-16 code unit of a character
charCode == [c \in AsciiSet |-> 31 + (CHOOSE ix \in 1..Len(AsciiChars) : AsciiChars[ix] = c)]

\* a < b in the order Array.prototype.sort() uses by default
StrLess(a, b) ==
  \E k \in 1..(Len(a) + 1) :
     /\ k <= Len(b)
     /\ \A j \in 1..(k - 1) : a[j] = b[j]
     /\ k <= Len(a) => charCode[a[k]] < charCode[b[k]]

\* Array.prototype.sort() of an array of strings
sort(L) ==
  LET rank(ix) == Cardinality({j \in 1..Len(L) : StrLess(L[j], L[ix])})
                 + Cardinality({j \in 1..(ix - 1) : L[j] = L[ix]}) + 1
  IN [k \in 1..Len(L) |-> L[CHOOSE ix \in 1..Len(L) : rank(ix) = k]]

\* Array.prototype.join(sep)
RECURSIVE join(_, _)
join(L, sep) ==
  IF Len(L) = 0 THEN << >>
  ELSE IF Len(L) = 1 THEN L[1]
  ELSE L[1] \o sep \o join(Tail(L), sep)

\* a fingerprint that also tells the emphasized edges from the others
topologyFingerprintWithStyle(eds) ==
  join(sort([k \in 1..Len(eds) |->
               eds[k].source \o <<"|">> \o eds[k].target
               \o (IF eds[k].stroke = "#3b82f6" THEN <<"|">> ELSE << >>)]), <<"|","|">>)

\* edges.map(e => source|target).sort().join('||')
topologyFingerprintOf(eds) ==
  join(sort([k \in 1..Len(eds) |-> eds[k].source \o <<"|">> \o eds[k].target]), <<"|","|">>)

\* the Map adjacency built from edges: node id -> Set of neighbour ids
adjacencyOf(eds) ==
  LET ends == {eds[k].source : k \in 1..Len(eds)} \cup {eds[k].target : k \in 1..Len(eds)}
  IN [n \in ends |->
        {eds[k].target : k \in {j \in 1..Len(eds) : eds[j].source = n}}
        \cup {eds[k].source : k \in {j \in 1..Len(eds) : eds[j].target = n}}]

(***************************************************************************)
(* ERDiagram: the highlight effect on [selectedNodeId, adjacency].         *)
(***************************************************************************)
jsBool(b) == IF b THEN "true" ELSE "false"

\* a highlight that dims every node but the selected one
HighlightNodeIgnoringAdjacency(node, sel, adj) ==
  [node EXCEPT !.selected = jsBool(node.id = sel),
               !.dimmed = jsBool(sel # null /\ node.id # sel)]

\* a highlight that hides the columns of the nodes it dims
HighlightNodeDroppingColumns(node, sel, adj) ==
  LET isSelected == node.id = sel
      isNeighbor == sel # null /\ sel \in DOMAIN adj /\ node.id \in adj[sel]
      shouldDim  == sel # null /\ ~isSelected /\ ~isNeighbor
  IN [node EXCEPT !.selected = jsBool(isSelected), !.dimmed = jsBool(shouldDim),
                  !.columns = IF shouldDim THEN << >> ELSE node.columns]

\* the function mapped over the nodes
HighlightNode(node, sel, adj) ==
  LET isSelected == node.id = sel
      isNeighbor == IF sel # null
                    THEN (IF sel \in DOMAIN adj THEN jsBool(node.id \in adj[sel]) ELSE "undefined")
                    ELSE "false"
      shouldDim  == sel # null /\ ~isSelected /\ isNeighbor # "true"
  IN IF node.selected = jsBool(isSelected) /\ node.dimmed = jsBool(shouldDim)
     THEN node
     ELSE [node EXCEPT !.selected = jsBool(isSelected), !.dimmed = jsBool(shouldDim)]

\* a highlight that emphasizes only the edges that leave the selected table
HighlightEdgeSourceOnly(edge, sel) ==
  LET connected == sel # null /\ edge.source = sel
  IN [edge EXCEPT !.animated = IF sel = null THEN "null" ELSE jsBool(connected),
                  !.stroke = IF connected THEN "#3b82f6" ELSE "#cbd5e1",
                  !.strokeWidth = IF connected THEN 3 ELSE 1,
                  !.opacity = IF sel # null /\ ~connected THEN "0.2" ELSE "1",
                  !.markerColor = IF connected THEN "#3b82f6"
                                  ELSE IF sel # null THEN "#e2e8f0" ELSE "#94a3b8",
                  !.zIndex = IF connected THEN "10" ELSE "0"]

\* a highlight that emphasizes every edge while nothing is selected
HighlightEdgeEmphasizingByDefault(edge, sel) ==
  LET connected == sel = null \/ edge.source = sel \/ edge.target = sel
  IN [edge EXCEPT !.animated = jsBool(connected),
                  !.stroke = IF connected THEN "#3b82f6" ELSE "#cbd5e1",
                  !.strokeWidth = IF connected THEN 3 ELSE 1,
                  !.opacity = IF ~connected THEN "0.2" ELSE "1",
                  !.markerColor = IF connected THEN "#3b82f6" ELSE "#e2e8f0",
                  !.zIndex = IF connected THEN "10" ELSE "0"]

\* the function mapped over the edges
HighlightEdge(edge, sel) ==
  LET isConnected   == IF sel = null THEN "null"
                       ELSE jsBool(edge.source = sel \/ edge.target = sel)
      connected     == isConnected = "true"
      shouldDim     == sel # null /\ ~connected
      targetStroke  == IF connected THEN "#3b82f6" ELSE "#cbd5e1"
      targetWidth   == IF connected THEN 3 ELSE 1
      targetOpacity == IF shouldDim THEN "0.2" ELSE "1"
      targetColor   == IF connected THEN "#3b82f6"
                       ELSE IF shouldDim THEN "#e2e8f0" ELSE "#94a3b8"
      targetZIndex  == IF connected THEN "10" ELSE "0"
  IN IF /\ edge.animated = isConnected
        /\ edge.stroke = targetStroke
        /\ edge.strokeWidth = targetWidth
        /\ edge.opacity = targetOpacity
        /\ edge.markerColor = targetColor
        /\ edge.zIndex = targetZIndex
     THEN edge
     ELSE [edge EXCEPT !.animated = isConnected,
                       !.stroke = targetStroke,
                       !.strokeWidth = targetWidth,
                       !.opacity = targetOpacity,
                       !.markerColor = targetColor,
                       !.zIndex = targetZIndex]

(***************************************************************************)
(* ERDiagram: onConnect, with addEdge of the reactflow library.            *)
(***************************************************************************)
\* addEdge: the connection becomes an edge with a generated id, unless an
\* edge with the same source, target and handles is already there
addEdge(params, eds) ==
  LET edge == [id           |-> <<"r","e","a","c","t","f","l","o","w","_","_","e","d","g","e","-">>
                                \o params.source \o params.sourceHandle
                                \o <<"-">> \o params.target \o params.targetHandle,
               source       |-> params.source,
               target       |-> params.target,
               sourceHandle |-> params.sourceHandle,
               targetHandle |-> params.targetHandle,
               animated     |-> "true",
               stroke       |-> "#3b82f6",
               strokeWidth  |-> 2,
               opacity      |-> "undefined",
               type         |-> "undefined",
               markerColor  |-> "undefined",
               zIndex       |-> "undefined"]
  IN IF \E k \in 1..Len(eds) :
          /\ eds[k].source = edge.source
          /\ eds[k].target = edge.target
          /\ eds[k].sourceHandle = edge.sourceHandle
          /\ eds[k].targetHandle = edge.targetHandle
     THEN eds
     ELSE Append(eds, edge)

(***************************************************************************)
(* App: the texts of the model.                                            *)
(***************************************************************************)
\* INITIAL_SQL, abridged: the comment header, two complete tables of the dump
\* (cif_amend, which holds CLIENT_NO, and cif_client, whose key it is) without
\* most of their columns, and the table the literal breaks off in
INITIAL_SQL == <<"\n","/","*","\n"," ","N","a","v","i","c","a","t"," ","P","r","e","m","i","u","m"," ","D","a","t","a"," ","T","r","a","n","s","f","e","r","\n","*","/","\n","S","E","T"," ","N","A","M","E","S"," ","u","t","f","8","m","b","4",";","\n","D","R","O","P"," ","T","A","B","L","E"," ","I","F"," ","E","X","I","S","T","S"," ",BackTick,"c","i","f","_","a","m","e","n","d",BackTick,";","\n","C","R","E","A","T","E"," ","T","A","B","L","E"," ",BackTick,"c","i","f","_","a","m","e","n","d",BackTick," "," ","(","\n"," "," ",BackTick,"A","M","E","N","D","_","S","E","Q","_","N","O",BackTick," ","v","a","r","c","h","a","r","(","5","0",")"," ","N","O","T"," ","N","U","L","L"," ","C","O","M","M","E","N","T"," ","'","s","e","q","'",",","\n"," "," ",BackTick,"C","L","I","E","N","T","_","N","O",BackTick," ","v","a","r","c","h","a","r","(","2","0",")"," ","N","O","T"," ","N","U","L","L",",","\n"," "," ","P","R","I","M","A","R","Y"," ","K","E","Y"," ","(",BackTick,"A","M","E","N","D","_","S","E","Q","_","N","O",BackTick,")"," ","U","S","I","N","G"," ","B","T","R","E","E",",","\n"," "," ","I","N","D","E","X"," ",BackTick,"I","D","X","_","C","I","F","_","A","M","E","N","D","_","1",BackTick,"(",BackTick,"C","L","I","E","N","T","_","N","O",BackTick,")"," ","U","S","I","N","G"," ","B","T","R","E","E","\n",")"," ","E","N","G","I","N","E"," ","="," ","I","n","n","o","D","B"," ","C","O","M","M","E","N","T"," ","="," ","'","a","m","e","n","d","'"," ","R","O","W","_","F","O","R","M","A","T"," ","="," ","D","y","n","a","m","i","c",";","\n","D","R","O","P"," ","T","A","B","L","E"," ","I","F"," ","E","X","I","S","T","S"," ",BackTick,"c","i","f","_","c","l","i","e","n","t",BackTick,";","\n","C","R","E","A","T","E"," ","T","A","B","L","E"," ",BackTick,"c","i","f","_","c","l","i","e","n","t",BackTick," "," ","(","\n"," "," ",BackTick,"C","L","I","E","N","T","_","N","O",BackTick," ","v","a","r","c","h","a","r","(","2","0",")"," ","N","O","T"," ","N","U","L","L",",","\n"," "," ",BackTick,"C","O","M","P","A","N","Y",BackTick," ","v","a","r","c","h","a","r","(","2","0",")"," ","N","U","L","L"," ","D","E","F","A","U","L","T"," ","N","U","L","L",",","\n"," "," ","P","R","I","M","A","R","Y"," ","K","E","Y"," ","(",BackTick,"C","L","I","E","N","T","_","N","O",BackTick,")"," ","U","S","I","N","G"," ","B","T","R","E","E","\n",")"," ","E","N","G","I","N","E"," ","="," ","I","n","n","o","D","B"," ","R","O","W","_","F","O","R","M","A","T"," ","="," ","D","y","n","a","m","i","c",";","\n","D","R","O","P"," ","T","A","B","L","E"," ","I","F"," ","E","X","I","S","T","S"," ",BackTick,"f","m","_","b","r","a","n","c","h","_","c","c","y",BackTick,";","\n","C","R","E","A","T","E"," ","T","A","B","L","E"," ",BackTick,"f","m","_","b","r","a","n","c","h","_","c","c","y",BackTick," "," ","(","\n"," "," ",BackTick,"B","R","A","N","C","H",BackTick," ","v","a","r","c","h","a","r","(","5","0",")"," ","N","O","T"," ","N","U","L","L",",","\n">>

\* what the user types into the text area: four tables t1(A, key A), t2(A),
\* t3(B), t4(B, key B); and a text without any CREATE TABLE
TextFourTables == <<"C","R","E","A","T","E"," ","T","A","B","L","E"," ","t","1"," ","(","\n"," ","A"," ","i","n","t",",","\n"," ","P","R","I","M","A","R","Y"," ","K","E","Y"," ","(","A",")","\n",")",";","\n","C","R","E","A","T","E"," ","T","A","B","L","E"," ","t","2"," ","(","\n"," ","A"," ","i","n","t","\n",")",";","\n","C","R","E","A","T","E"," ","T","A","B","L","E"," ","t","3"," ","(","\n"," ","B"," ","i","n","t","\n",")",";","\n","C","R","E","A","T","E"," ","T","A","B","L","E"," ","t","4"," ","(","\n"," ","B"," ","i","n","t",",","\n"," ","P","R","I","M","A","R","Y"," ","K","E","Y"," ","(","B",")","\n",")",";">>

TextNoTable == <<"D","R","O","P"," ","T","A","B","L","E"," ","t","1",";">>

\* a file the user uploads: t1(A, key A), t3(A)
TextTwoTables == <<"C","R","E","A","T","E"," ","T","A","B","L","E"," ","t","1"," ","(","\n"," ","A"," ","i","n","t",",","\n"," ","P","R","I","M","A","R","Y"," ","K","E","Y"," ","(","A",")","\n",")",";","\n","C","R","E","A","T","E"," ","T","A","B","L","E"," ","t","3"," ","(","\n"," ","A"," ","i","n","t","\n",")",";">>

TypedTexts == {TextFourTables, TextNoTable}

UploadFiles == {TextTwoTables, TextNoTable}

\* how many file uploads may be under way (being read, or waiting for their
\* timeout) at a time
MaxUploads == 1

\* how many connections the user draws on one diagram
MaxConnections == 1

\* parseSQL on the texts of the model, computed once
parseCache == [text \in TypedTexts \cup UploadFiles \cup {INITIAL_SQL} |-> parseSQL(text)]

parseSQLOf(text) == parseCache[text]

NoTablesMessage == "No tables found in the provided SQL."

(***************************************************************************)
(* The state.                                                              *)
(***************************************************************************)
VARIABLES
  \* App (useState)
  sqlInput, parsedTables, viewMode, error,
  \* App: the mount effect has not run yet
  appEffectPending,
  \* handleFileUpload: the files a FileReader is reading, and the contents
  \* whose setTimeout callback has not fired yet, oldest first
  reading, timers,
  \* history: which handler made the most recent extraction request (the
  \* mount effect, Parse & Visualize, Reload Default Data, or reader.onload
  \* of an upload); no action reads it
  lastRequest,
  \* ERDiagramContent: is it rendered, its useState and useMemo values, and
  \* which of its two effects the last render has scheduled
  mounted, nodes, edges, selectedNodeId, topologyFingerprint, adjacency,
  tablesEffectPending, highlightEffectPending,
  \* one call of parseSQL: its argument, the array tableBlocks, the loop
  \* index, the array tables, and body and afterBody of the last iteration
  sql, blocks, i, tables, body, afterBody,
  \* the lines that the argument of that call was built from
  given

appVars == <<sqlInput, parsedTables, viewMode, error, appEffectPending, reading, timers,
             lastRequest>>

diagramVars == <<mounted, nodes, edges, selectedNodeId, topologyFingerprint, adjacency,
                 tablesEffectPending, highlightEffectPending>>

parseVars == <<sql, blocks, i, tables, body, afterBody, given>>

vars == <<appVars, diagramVars, parseVars>>

\* a Map without entries
EmptyMap == [n \in {} |-> {}]

\* no call of parseSQL is being followed
ParseIdle ==
  /\ sql = << >>
  /\ blocks = << >>
  /\ i = 0
  /\ tables = << >>
  /\ body = <<"undefined">>
  /\ afterBody = <<"undefined">>
  /\ given = [lines |-> << >>, two |-> FALSE, layout |-> "lines",
              before |-> 1, between |-> 1, extra |-> 0, named |-> 0]

\* ERDiagramContent is not rendered: it has no state
DiagramAbsent ==
  /\ mounted = FALSE
  /\ nodes = << >>
  /\ edges = << >>
  /\ selectedNodeId = null
  /\ topologyFingerprint = << >>
  /\ adjacency = EmptyMap
  /\ tablesEffectPending = FALSE
  /\ highlightEffectPending = FALSE

\* the state after App's first render
Init ==
  /\ sqlInput = INITIAL_SQL
  /\ parsedTables = << >>
  /\ viewMode = "EDITOR"
  /\ error = "null"
  /\ appEffectPending = TRUE
  /\ reading = << >>
  /\ timers = << >>
  /\ lastRequest = "none"
  /\ DiagramAbsent
  /\ ParseIdle

\* every effect of the last render has run
Settled == ~appEffectPending /\ ~tablesEffectPending /\ ~highlightEffectPending

(***************************************************************************)
(* App: what a render of App does to ERDiagram.  The diagram is rendered   *)
(* iff the view is the editor and there are tables; newTables says that    *)
(* setParsedTables was called (parseSQL returns a new array every time).   *)
(***************************************************************************)
RenderDiagram(vm, pt, newTables) ==
  IF ~(vm = "EDITOR" /\ Len(pt) > 0)
  THEN \* not rendered: an ERDiagram that was there is unmounted
       /\ mounted' = FALSE
       /\ nodes' = << >>
       /\ edges' = << >>
       /\ selectedNodeId' = null
       /\ topologyFingerprint' = << >>
       /\ adjacency' = EmptyMap
       /\ tablesEffectPending' = FALSE
       /\ highlightEffectPending' = FALSE
  ELSE IF ~mounted
  THEN \* mounted: initial state, and both effects run after the first render
       /\ mounted' = TRUE
       /\ nodes' = << >>
       /\ edges' = << >>
       /\ selectedNodeId' = null
       /\ topologyFingerprint' = topologyFingerprintOf(<< >>)
       /\ adjacency' = adjacencyOf(<< >>)
       /\ tablesEffectPending' = TRUE
       /\ highlightEffectPending' = TRUE
  ELSE \* re-rendered: the effect on [tables] runs iff the prop is a new array
       /\ tablesEffectPending' = newTables
       /\ UNCHANGED <<mounted, nodes, edges, selectedNodeId, topologyFingerprint,
                      adjacency, highlightEffectPending>>

\* handleParse, which reads the sqlInput of the render it was created in
handleParse ==
  \E result \in {parseSQLOf(sqlInput)} :
    IF Len(result) = 0
    THEN /\ error' = NoTablesMessage
         /\ UNCHANGED <<parsedTables, viewMode>>
         /\ RenderDiagram(viewMode, parsedTables, FALSE)
    ELSE /\ parsedTables' = result
         /\ error' = "null"
         /\ viewMode' = "EDITOR"
         /\ RenderDiagram("EDITOR", result, TRUE)

\* useEffect(() => handleParse(), [])
AppMountEffect ==
  /\ appEffectPending
  /\ appEffectPending' = FALSE
  /\ handleParse
  /\ lastRequest' = "mount"
  /\ UNCHANGED <<sqlInput, reading, timers, parseVars>>

\* the two view buttons of the header
SetViewMode(m) ==
  /\ Settled
  /\ m # viewMode
  /\ viewMode' = m
  /\ RenderDiagram(m, parsedTables, FALSE)
  /\ UNCHANGED <<sqlInput, parsedTables, error, appEffectPending, reading, timers,
                 lastRequest, parseVars>>

\* the text area (SQL input view)
TextAreaChange(text) ==
  /\ Settled
  /\ viewMode = "SQL_INPUT"
  /\ sqlInput' = text
  /\ UNCHANGED <<parsedTables, viewMode, error, appEffectPending, reading, timers, lastRequest,
                 diagramVars, parseVars>>

\* the button Parse & Visualize (SQL input view)
ParseClick ==
  /\ Settled
  /\ viewMode = "SQL_INPUT"
  /\ handleParse
  /\ lastRequest' = "parse"
  /\ UNCHANGED <<sqlInput, appEffectPending, reading, timers, parseVars>>

\* the link Reload Default Data of the header
ReloadClick ==
  /\ Settled
  /\ sqlInput' = INITIAL_SQL
  /\ handleParse
  /\ lastRequest' = "reload"
  /\ UNCHANGED <<appEffectPending, reading, timers, parseVars>>

\* handleFileUpload: a file is chosen (SQL input view) and a FileReader
\* starts to read it
FileChosen(content) ==
  /\ Settled
  /\ viewMode = "SQL_INPUT"
  /\ Len(reading) + Len(timers) < MaxUploads
  /\ reading' = Append(reading, content)
  /\ UNCHANGED <<sqlInput, parsedTables, viewMode, error, appEffectPending, timers, lastRequest,
                 diagramVars, parseVars>>

\* reader.onload of one of the readers: the text is shown and the parse is
\* put off by setTimeout
ReaderOnload(k) ==
  /\ Settled
  /\ k \in 1..Len(reading)
  /\ sqlInput' = reading[k]
  /\ timers' = Append(timers, reading[k])
  /\ lastRequest' = "upload"
  /\ reading' = [j \in 1..(Len(reading) - 1) |-> IF j < k THEN reading[j] ELSE reading[j + 1]]
  /\ UNCHANGED <<parsedTables, viewMode, error, appEffectPending, diagramVars, parseVars>>

\* the callback of the oldest setTimeout of handleFileUpload
UploadTimeout ==
  /\ Settled
  /\ Len(timers) > 0
  /\ \E result \in {parseSQLOf(Head(timers))} :
        /\ parsedTables' = result
        /\ RenderDiagram(viewMode, result, TRUE)
  /\ timers' = Tail(timers)
  /\ UNCHANGED <<sqlInput, viewMode, error, appEffectPending, reading, lastRequest, parseVars>>

(***************************************************************************)
(* ERDiagramContent: the handlers and the effects.                         *)
(***************************************************************************)
\* memos in which adjacency is rebuilt only when the number of edges changes
RenderMemosByLength(eds) ==
  /\ topologyFingerprint' = topologyFingerprintOf(eds)
  /\ adjacency' = IF Len(eds) # Len(edges) THEN adjacencyOf(eds) ELSE adjacency

\* what a render does after edges has changed: both memos
RenderMemos(eds) ==
  /\ topologyFingerprint' = topologyFingerprintOf(eds)
  /\ adjacency' = IF topologyFingerprintOf(eds) # topologyFingerprint
                  THEN adjacencyOf(eds) ELSE adjacency

\* a click that deselects the node when it is already the selected one
onNodeClickToggle(n) ==
  /\ Settled
  /\ mounted
  /\ n \in 1..Len(nodes)
  /\ selectedNodeId' = IF nodes[n].id = selectedNodeId THEN null ELSE nodes[n].id
  /\ highlightEffectPending' = TRUE
  /\ UNCHANGED <<appVars, mounted, nodes, edges, topologyFingerprint, adjacency,
                 tablesEffectPending, parseVars>>

onNodeClick(n) ==
  /\ Settled
  /\ mounted
  /\ n \in 1..Len(nodes)
  /\ selectedNodeId' = nodes[n].id
  /\ highlightEffectPending' = (nodes[n].id # selectedNodeId)
  /\ UNCHANGED <<appVars, mounted, nodes, edges, topologyFingerprint, adjacency,
                 tablesEffectPending, parseVars>>

onPaneClick ==
  /\ Settled
  /\ mounted
  /\ selectedNodeId' = null
  /\ highlightEffectPending' = (selectedNodeId # null)
  /\ UNCHANGED <<appVars, mounted, nodes, edges, topologyFingerprint, adjacency,
                 tablesEffectPending, parseVars>>

\* the connections the user draws: from the first column of the second node to
\* the first column of the first node, or from the first node to the third
ConnectionEnds == {<<2, 1>>, <<1, 3>>}

Connections ==
  {[source       |-> nodes[p[1]].id,
    target       |-> nodes[p[2]].id,
    sourceHandle |-> nodes[p[1]].columns[1].name \o <<"-","s","o","u","r","c","e">>,
    targetHandle |-> nodes[p[2]].columns[1].name \o <<"-","t","a","r","g","e","t">>]
   : p \in {q \in ConnectionEnds : /\ q[1] <= Len(nodes) /\ q[2] <= Len(nodes)
                                     /\ Len(nodes[q[1]].columns) > 0
                                     /\ Len(nodes[q[2]].columns) > 0}}

\* the edges that onConnect has added (addEdge names them reactflow__edge-...)
UserEdges == {k \in 1..Len(edges) : edges[k].type = "undefined"}

onConnect(params) ==
  /\ Settled
  /\ mounted
  /\ Cardinality(UserEdges) < MaxConnections
  /\ edges' = addEdge(params, edges)
  /\ RenderMemos(addEdge(params, edges))
  /\ highlightEffectPending' = (topologyFingerprintOf(addEdge(params, edges)) # topologyFingerprint)
  /\ UNCHANGED <<appVars, mounted, nodes, selectedNodeId, tablesEffectPending, parseVars>>

\* an effect that keeps the edges the user has drawn
TablesEffectKeepingUserEdges ==
  [nodes |-> getLayoutedNodes(parsedTables),
   edges |-> newEdges(parsedTables) \o SelectSeq(edges, LAMBDA e : e.type = "undefined"),
   selectedNodeId |-> null]

\* an effect that keeps a selection whose id is the id of a new table
TablesEffectKeepingSelection ==
  [nodes |-> getLayoutedNodes(parsedTables),
   edges |-> newEdges(parsedTables),
   selectedNodeId |-> IF \E k \in 1..Len(parsedTables) : parsedTables[k].id = selectedNodeId
                      THEN selectedNodeId ELSE null]

\* the effect on [tables]: the updates it queues
TablesEffect ==
  [nodes |-> getLayoutedNodes(parsedTables),
   edges |-> newEdges(parsedTables),
   selectedNodeId |-> null]

\* the effect on [selectedNodeId, adjacency]: its two updater functions, with
\* selectedNodeId and adjacency of the render that scheduled the effect
HighlightNodes(nds) == [k \in 1..Len(nds) |-> HighlightNode(nds[k], selectedNodeId, adjacency)]

HighlightEdges(eds) == [k \in 1..Len(eds) |-> HighlightEdge(eds[k], selectedNodeId)]

\* React runs the effects the last render scheduled, in the order of the
\* component, applies the queued updates in order and renders again
FlushPassiveEffects ==
  /\ mounted
  /\ tablesEffectPending \/ highlightEffectPending
  /\ LET st1 == IF tablesEffectPending THEN TablesEffect
                ELSE [nodes |-> nodes, edges |-> edges, selectedNodeId |-> selectedNodeId]
         nds == IF highlightEffectPending THEN HighlightNodes(st1.nodes) ELSE st1.nodes
         eds == IF highlightEffectPending THEN HighlightEdges(st1.edges) ELSE st1.edges
     IN /\ nodes' = nds
        /\ edges' = eds
        /\ selectedNodeId' = st1.selectedNodeId
        /\ RenderMemos(eds)
        /\ tablesEffectPending' = FALSE
        /\ highlightEffectPending' =
             \/ st1.selectedNodeId # selectedNodeId
             \/ topologyFingerprintOf(eds) # topologyFingerprint
  /\ UNCHANGED <<appVars, mounted, parseVars>>

Next ==
  \/ AppMountEffect
  \/ \E m \in {"EDITOR", "SQL_INPUT"} : SetViewMode(m)
  \/ \E text \in TypedTexts : TextAreaChange(text)
  \/ ParseClick
  \/ ReloadClick
  \/ \E content \in UploadFiles : FileChosen(content)
  \/ \E k \in 1..Len(reading) : ReaderOnload(k)
  \/ UploadTimeout
  \/ \E n \in 1..Len(nodes) : onNodeClick(n)
  \/ onPaneClick
  \/ \E params \in Connections : onConnect(params)
  \/ FlushPassiveEffects

Spec == Init /\ [][Next]_vars

(***************************************************************************)
(* The edge inference alone: ERDiagram mounted with a schema.              *)
(***************************************************************************)
\* how many tables a schema given to the diagram has at most
MaxTables == 2

Column(name, pk) ==
  [name |-> name, type |-> <<"i","n","t">>, comment |-> << >>,
   isPrimaryKey |-> pk, isNullable |-> ~pk]

colA == <<"A">>

colB == <<"B">>

colCOMPANY == <<"C","O","M","P","A","N","Y">>

colLowerId == <<"i","d">>

\* the column lists of the tables given to the diagram (a name has one
\* primary-key flag within a table, as in every result of parseSQL)
ColumnLists ==
  { << >>,
    << Column(colA, TRUE) >>,
    << Column(colA, FALSE) >>,
    << Column(colA, TRUE), Column(colB, TRUE) >>,
    << Column(colB, FALSE), Column(colA, FALSE) >>,
    << Column(colA, FALSE), Column(colA, FALSE) >>,
    << Column(colCOMPANY, TRUE), Column(colA, FALSE) >>,
    << Column(colCOMPANY, FALSE) >>,
    << Column(colLowerId, TRUE), Column(strCLIENT_NO, FALSE) >>,
    << Column(strCLIENT_NO, TRUE) >> }

TableNames == { <<"t","1">>, <<"t","2">>, strCifClient }

TableChoices ==
  {[id |-> n, name |-> n, comment |-> << >>, columns |-> cl] : n \in TableNames, cl \in ColumnLists}

RECURSIVE SeqsUpTo(_, _)
SeqsUpTo(S, n) ==
  IF n = 0 THEN { << >> }
  ELSE SeqsUpTo(S, n - 1) \cup {Append(q, x) : q \in {r \in SeqsUpTo(S, n - 1) : Len(r) = n - 1}, x \in S}

Schemas == SeqsUpTo(TableChoices, MaxTables)

\* ERDiagramContent after its first render with the prop tables
InitInfer ==
  /\ sqlInput = << >>
  /\ parsedTables \in Schemas
  /\ viewMode = "EDITOR"
  /\ error = "null"
  /\ appEffectPending = FALSE
  /\ reading = << >>
  /\ timers = << >>
  /\ lastRequest = "none"
  /\ mounted = TRUE
  /\ nodes = << >>
  /\ edges = << >>
  /\ selectedNodeId = null
  /\ topologyFingerprint = topologyFingerprintOf(<< >>)
  /\ adjacency = adjacencyOf(<< >>)
  /\ tablesEffectPending = TRUE
  /\ highlightEffectPending = TRUE
  /\ ParseIdle

NextInfer == FlushPassiveEffects

SpecInfer == InitInfer /\ [][NextInfer]_vars

(***************************************************************************)
(* One call of parseSQL, block by block.                                   *)
(***************************************************************************)
\* how many lines the body of the first table of an input text has at most
MaxLines == 3

\* the lines an input text is made of.  kind: a column line (col), a PRIMARY
\* KEY clause (pk), another line (other), a column line with a parenthesis
\* that is never closed (open) or never opened (close).  listed: the column
\* names a clause lists.  marks: the names that the first text of the form
\* PRIMARY KEY (...) on the line yields once each entry, cut at commas, is
\* trimmed and stripped of backticks and single quotes.
BodyLines == <<
  [text |-> <<BackTick,"A",BackTick," ","i","n","t"," ","N","O","T"," ","N","U","L","L">>,
   kind |-> "col", name |-> <<"A">>,
   listed |-> {}, marks |-> {}],
  [text |-> <<"B"," ","d","e","c","i","m","a","l","(","1","7",","," ","2",")">>,
   kind |-> "col", name |-> <<"B">>,
   listed |-> {}, marks |-> {}],
  [text |-> <<"P","R","I","M","A","R","Y"," ","K","E","Y"," ","(",BackTick,"A",BackTick,")">>,
   kind |-> "pk", name |-> <<>>,
   listed |-> {<<"A">>}, marks |-> {<<"A">>}],
  [text |-> <<"p","r","i","m","a","r","y"," ","k","e","y"," ","(","A",","," ","'","B","'",")">>,
   kind |-> "pk", name |-> <<>>,
   listed |-> {<<"A">>, <<"B">>}, marks |-> {<<"A">>, <<"B">>}],
  [text |-> <<"P","R","I","M","A","R","Y"," ","K","E","Y"," ","(","\"","A","\"",")">>,
   kind |-> "pk", name |-> <<>>,
   listed |-> {<<"A">>}, marks |-> {<<"\"","A","\"">>}],
  [text |-> <<"P","R","I","M","A","R","Y"," ","K","E","Y"," ","(",BackTick,"B",BackTick,"(","1","0",")",")">>,
   kind |-> "pk", name |-> <<>>,
   listed |-> {<<"B">>}, marks |-> {<<"B","(","1","0">>}],
  [text |-> <<BackTick,"E",BackTick," ","i","n","t"," ","C","O","M","M","E","N","T"," ","'","s","e","e"," ","P","R","I","M","A","R","Y"," ","K","E","Y"," ","(","E",")","'">>,
   kind |-> "col", name |-> <<"E">>,
   listed |-> {}, marks |-> {<<"E">>}],
  [text |-> <<"K","E","Y"," ",BackTick,"k",BackTick," ","(",BackTick,"A",BackTick,")">>,
   kind |-> "other", name |-> <<>>,
   listed |-> {}, marks |-> {}],
  [text |-> <<"C"," ","i","n","t","(">>,
   kind |-> "open", name |-> <<"C">>,
   listed |-> {}, marks |-> {}],
  [text |-> <<"D"," ","i","n","t",")">>,
   kind |-> "close", name |-> <<"D">>,
   listed |-> {}, marks |-> {}] >>

LineChoices == SeqsUpTo(1..Len(BodyLines), MaxLines)

strLineEnd == <<",", "\n">>

RECURSIVE JoinLines(_, _)
JoinLines(choice, k) ==
  IF k > Len(choice) THEN << >>
  ELSE <<" ", " ">> \o BodyLines[choice[k]].text
       \o (IF k < Len(choice) THEN strLineEnd ELSE <<"\n">>)
       \o JoinLines(choice, k + 1)

FirstHeader == <<"-","-"," ","d","u","m","p","\n","C","R","E","A","T","E"," ","T","A","B","L","E"," ",BackTick,"t","1",BackTick," ","(","\n">>

FirstTrailer == <<")"," ","E","N","G","I","N","E","=","I","n","n","o","D","B"," ","C","O","M","M","E","N","T","=","'","T","1","'",";","\n">>

SecondStatement == <<"C","R","E","A","T","E"," ","T","A","B","L","E"," ","t","2"," ","(","\n"," "," ",BackTick,"A",BackTick," ","i","n","t","\n",")",";","\n">>

\* the input text built from a choice of lines, with or without a second table
InputText(choice, two) ==
  FirstHeader \o JoinLines(choice, 1) \o FirstTrailer
  \o (IF two THEN SecondStatement ELSE << >>)

\* how many lines the body of the first table has at most in the input texts
\* that carry a fragment, a further line or the one-line layout
MaxShortLines == 1

ShortChoices == SeqsUpTo(1..Len(BodyLines), MaxShortLines)

\* the text that may stand before a CREATE TABLE statement: nothing, a
\* statement without a table name, one without a parenthesis, one whose
\* parenthesis is never closed, one without a body of its own that is
\* followed by an INSERT statement
Fragments == <<
  << >>,
  <<"C","R","E","A","T","E"," ","T","A","B","L","E"," ","(","x"," ","i","n","t",")",";","\n">>,
  <<"C","R","E","A","T","E"," ","T","A","B","L","E"," ","a"," ","L","I","K","E"," ","b",";","\n">>,
  <<"C","R","E","A","T","E"," ","T","A","B","L","E"," ","u"," ","(","\n"," "," ","x"," ","i","n","t","(","\n",")",";","\n">>,
  <<"C","R","E","A","T","E"," ","T","A","B","L","E"," ","a"," ","L","I","K","E"," ","b",";","\n","I","N","S","E","R","T"," ","I","N","T","O"," ","a"," ","V","A","L","U","E","S"," ","(","1",")",";","\n">> >>

\* the fragments before the first and before the second statement: one of
\* them, the same one twice, or a nameless statement and an unclosed one
FragmentPairs ==
  {<<b, 1>> : b \in 2..Len(Fragments)} \cup {<<1, c>> : c \in 2..Len(Fragments)}
  \cup {<<b, b>> : b \in 2..Len(Fragments)} \cup {<<2, 4>>, <<4, 3>>}

\* a further column line: the name F, then a type word, a group and the rest
ExtraLines == <<
  [head |-> <<"d","e","c","i","m","a","l">>, group |-> <<"(","1","7",","," ","2",")">>, rest |-> << >>],
  [head |-> <<"d","e","c","i","m","a","l">>, group |-> <<"(","1","7",","," ","2",")">>, rest |-> <<" ","N","O","T"," ","N","U","L","L">>],
  [head |-> <<"v","a","r","c","h","a","r">>, group |-> <<"(","5","0",")">>, rest |-> <<" ","D","E","F","A","U","L","T"," ","'","x","'">>],
  [head |-> <<"i","n","t">>, group |-> << >>, rest |-> <<" ","N","O","T"," ","N","U","L","L">>],
  [head |-> <<"e","n","u","m">>, group |-> <<"(","'","(","a",")","'",",","'","b","'",")">>, rest |-> << >>],
  [head |-> << >>, group |-> << >>, rest |-> << >>],
  [head |-> << >>, group |-> <<"(","5","0",")">>, rest |-> << >>],
  [head |-> << >>, group |-> <<"'","x","'">>, rest |-> << >>] >>

ExtraText(e) ==
  <<BackTick,"F",BackTick," ">> \o ExtraLines[e].head \o ExtraLines[e].group \o ExtraLines[e].rest

\* a further line that starts with an identifier or a comment mark: its text,
\* and for a line that starts with an identifier which is not a structural
\* keyword (genuine) the name of the column it declares
NamedLines == <<
  [text |-> <<"G"," ","v","a","r","c","h","a","r","(","5","0",")">>,
   name |-> <<"G">>, genuine |-> TRUE],
  [text |-> <<"K","E","Y","_","I","D"," ","i","n","t">>,
   name |-> <<"K","E","Y","_","I","D">>, genuine |-> TRUE],
  [text |-> <<"I","N","D","E","X","_","N","O"," ","i","n","t"," ","N","O","T"," ","N","U","L","L">>,
   name |-> <<"I","N","D","E","X","_","N","O">>, genuine |-> TRUE],
  [text |-> <<BackTick,"i","n","d","e","x","_","n","o",BackTick," ","i","n","t">>,
   name |-> <<"i","n","d","e","x","_","n","o">>, genuine |-> TRUE],
  [text |-> <<"C","H","E","C","K"," ","(","A"," ",">"," ","0",")">>,
   name |-> << >>, genuine |-> FALSE],
  [text |-> <<BackTick,"k","e","y",BackTick," ","i","n","t">>,
   name |-> << >>, genuine |-> FALSE],
  [text |-> <<"-","-"," ","n","o","t","e">>,
   name |-> << >>, genuine |-> FALSE],
  [text |-> <<"C","O","N","S","T","R","A","I","N","T"," ","c"," ","U","N","I","Q","U","E"," ","(","A",")">>,
   name |-> << >>, genuine |-> FALSE] >>

\* the texts of the lines of the body of the first table
LineTexts(g) ==
  [k \in 1..Len(g.lines) |-> BodyLines[g.lines[k]].text]
  \o (IF g.extra = 0 THEN << >> ELSE <<ExtraText(g.extra)>>)
  \o (IF g.named = 0 THEN << >> ELSE <<NamedLines[g.named].text>>)

RECURSIVE JoinTexts(_, _, _, _, _)
JoinTexts(texts, k, indent, sep, end) ==
  IF k > Len(texts) THEN << >>
  ELSE indent \o texts[k] \o (IF k < Len(texts) THEN sep ELSE end)
       \o JoinTexts(texts, k + 1, indent, sep, end)

SingleHeader == <<"C","R","E","A","T","E"," ","T","A","B","L","E"," ","t","1"," ","(">>

SingleTrailer == <<")"," ","C","O","M","M","E","N","T","=","'","T","1","'",";">>

\* the input text of a parameter record: the lines of the first table, one
\* per line or all on the line of the statement; the fragments before the
\* first and before the second statement; with or without a second table
InputTextOf(g) ==
  IF g.layout = "single"
  THEN SingleHeader \o JoinTexts(LineTexts(g), 1, << >>, <<",", " ">>, << >>) \o SingleTrailer
  ELSE Fragments[g.before] \o FirstHeader
       \o JoinTexts(LineTexts(g), 1, <<" ", " ">>, strLineEnd, <<"\n">>)
       \o FirstTrailer \o Fragments[g.between]
       \o (IF g.two THEN SecondStatement ELSE << >>)

Plain(choice, two) ==
  [lines |-> choice, two |-> two, layout |-> "lines", before |-> 1, between |-> 1, extra |-> 0,
   named |-> 0]

\* the parameter records of the input texts
Givens ==
  {Plain(choice, two) : choice \in LineChoices, two \in BOOLEAN}
  \cup {[Plain(choice, TRUE) EXCEPT !.before = p[1], !.between = p[2]] :
          choice \in ShortChoices, p \in FragmentPairs}
  \cup {[Plain(choice, FALSE) EXCEPT !.extra = e] :
          choice \in ShortChoices, e \in 1..Len(ExtraLines)}
  \cup {[Plain(choice, FALSE) EXCEPT !.named = e] :
          choice \in ShortChoices, e \in 1..Len(NamedLines)}
  \cup {[Plain(choice, FALSE) EXCEPT !.layout = "single"] :
          choice \in SeqsUpTo(1..Len(BodyLines), MaxShortLines + 1)}

undefined == <<"undefined">>

\* a call parseSQL(sql) at the head of its loop (i = 1, tables = [])
InitParse ==
  /\ \E g \in Givens :
        /\ given = g
        /\ \E text \in {InputTextOf(g)} :
              /\ sql = text
              /\ blocks = tableBlocks(text)
  /\ i = 1
  /\ tables = << >>
  /\ body = undefined
  /\ afterBody = undefined
  /\ sqlInput = << >>
  /\ parsedTables = << >>
  /\ viewMode = "SQL_INPUT"
  /\ error = "null"
  /\ appEffectPending = FALSE
  /\ reading = << >>
  /\ timers = << >>
  /\ lastRequest = "none"
  /\ DiagramAbsent

\* one iteration of the loop over tableBlocks (block i, counted from 0)
ParseBlock ==
  /\ i >= 1
  /\ i < Len(blocks)
  /\ \E block \in {blocks[i + 1]}, made \in {TablesOfBlock(blocks[i + 1])} :
        /\ body' = IF made # << >> THEN bodyOf(block) ELSE undefined
        /\ afterBody' = IF made # << >> THEN afterBodyOf(block) ELSE undefined
        /\ tables' = tables \o made
  /\ i' = i + 1
  /\ UNCHANGED <<sql, blocks, given, appVars, diagramVars>>

\* the loop has ended: parseSQL returns tables
Returned == i >= 1 /\ i >= Len(blocks)

\* the input texts after whose run parseSQL is called again
Rerun(g) == Len(g.lines) <= MaxShortLines /\ g.before = 1 /\ g.between = 1

\* parseSQL has returned to handleParse, which sets the error or installs
\* the tables; no call is being followed afterwards
ReturnToHandleParse ==
  /\ Returned
  /\ Rerun(given)
  /\ IF Len(tables) = 0
     THEN /\ error' = NoTablesMessage
          /\ UNCHANGED <<parsedTables, viewMode>>
     ELSE /\ parsedTables' = tables
          /\ error' = "null"
          /\ viewMode' = "EDITOR"
  /\ sql' = << >>
  /\ blocks' = << >>
  /\ i' = 0
  /\ tables' = << >>
  /\ body' = undefined
  /\ afterBody' = undefined
  /\ UNCHANGED <<given, sqlInput, appEffectPending, reading, timers, lastRequest, diagramVars>>

\* a call of parseSQL whose array tables is the one of the call before
CallParseKeepingTables(text) ==
  /\ i = 0
  /\ sql' = text
  /\ blocks' = tableBlocks(text)
  /\ i' = 1
  /\ tables' = parsedTables
  /\ UNCHANGED <<body, afterBody, given, appVars, diagramVars>>

\* a further call parseSQL(text): the locals of the call are new
CallParse(text) ==
  /\ i = 0
  /\ sql' = text
  /\ blocks' = tableBlocks(text)
  /\ i' = 1
  /\ tables' = << >>
  /\ UNCHANGED <<body, afterBody, given, appVars, diagramVars>>

NextParse ==
  \/ ParseBlock
  \/ ReturnToHandleParse
  \/ \E text \in {InputTextOf(given), TextNoTable} : CallParse(text)

SpecParse == InitParse /\ [][NextParse]_vars
(***************************************************************************)
(* Properties of the highlight.                                            *)
(***************************************************************************)
idT1 == <<"t","1">>

idT2 == <<"t","2">>

idT3 == <<"t","3">>

idT4 == <<"t","4">>

NodeIds == {nodes[k].id : k \in 1..Len(nodes)}

NodeOf(id) == nodes[CHOOSE k \in 1..Len(nodes) : nodes[k].id = id]

EdgePairs == {<<edges[k].source, edges[k].target>> : k \in 1..Len(edges)}

\* the entry of the Adjacency Index for an id (none: no neighbours)
Neighbours(id) == IF id \in DOMAIN adjacency THEN adjacency[id] ELSE {}

\* C1: in every settled state of the diagram, a node is dimmed if and only if
\* some table is selected, the node is not the selected table and its id is
\* not in the Adjacency Index entry of the selected id.
NodeHighlightConsistency ==
  (Settled /\ mounted) =>
    \A k \in 1..Len(nodes) :
      (nodes[k].dimmed = "true") <=>
        /\ selectedNodeId # null
        /\ nodes[k].id # selectedNodeId
        /\ nodes[k].id \notin Neighbours(selectedNodeId)

\* t1 is selected with the edges t2->t1 and t3->t4: t1 and t2 are not dimmed,
\* t3 and t4 are
NodeHighlightWitness ==
  /\ Settled /\ mounted
  /\ selectedNodeId = idT1
  /\ NodeIds = {idT1, idT2, idT3, idT4}
  /\ EdgePairs = {<<idT2, idT1>>, <<idT3, idT4>>}
  /\ NodeOf(idT1).dimmed = "false" /\ NodeOf(idT2).dimmed = "false"
  /\ NodeOf(idT3).dimmed = "true" /\ NodeOf(idT4).dimmed = "true"

Emphasized(edge) == edge.animated = "true" /\ edge.stroke = "#3b82f6"

DimmedEdge(edge) == edge.opacity = "0.2"

\* C2: in every settled state, an edge is emphasized (animated, highlighted
\* stroke) if and only if its source or its target is the selected table id,
\* and it is dimmed if and only if a selection exists and neither endpoint is
\* the selected id.
EdgeHighlightConsistency ==
  (Settled /\ mounted) =>
    \A k \in 1..Len(edges) :
      LET touches == edges[k].source = selectedNodeId \/ edges[k].target = selectedNodeId
      IN /\ Emphasized(edges[k]) <=> touches
         /\ DimmedEdge(edges[k]) <=> (selectedNodeId # null /\ ~touches)

\* t1 is selected: the edge t2->t1 is emphasized, the edge t3->t4 is dimmed
EdgeHighlightWitness ==
  /\ Settled /\ mounted
  /\ selectedNodeId = idT1
  /\ \E k \in 1..Len(edges) :
        edges[k].source = idT2 /\ edges[k].target = idT1 /\ Emphasized(edges[k])
  /\ \E k \in 1..Len(edges) :
        edges[k].source = idT3 /\ edges[k].target = idT4 /\ DimmedEdge(edges[k])
(***************************************************************************)
(* Properties of the edge inference.                                       *)
(***************************************************************************)
\* the tables effect has run on the schema
Inferred == mounted /\ ~tablesEffectPending

PkColumnNames(t) == {t.columns[j].name : j \in {x \in 1..Len(t.columns) : t.columns[x].isPrimaryKey}}

ColumnNames(t) == {t.columns[j].name : j \in 1..Len(t.columns)}

\* C3: for every schema, no inferred relationship edge has its source table
\* id equal to its target table id.
NoSelfLoops ==
  Inferred => \A k \in 1..Len(edges) : edges[k].source # edges[k].target

\* two tables declare the same primary-key column name, or two tables have
\* the same id and share a registered column name, and the inference has run
NoSelfLoopsWitness ==
  /\ Inferred
  /\ Len(parsedTables) = 2
  /\ PkColumnNames(parsedTables[1]) \cap PkColumnNames(parsedTables[2]) # {}
  /\ Len(edges) > 0

NoSelfLoopsSameIdWitness ==
  /\ Inferred
  /\ Len(parsedTables) = 2
  /\ parsedTables[1].id = parsedTables[2].id
  /\ colA \in PkColumnNames(parsedTables[1]) \cap ColumnNames(parsedTables[2])
  /\ Len(edges) = 0

\* the column that triggered an inferred edge (its handles are named after it)
TriggerColumn(edge) == SubSeq(edge.sourceHandle, 1, Len(edge.sourceHandle) - 7)

\* C4: for every schema, no inferred edge is triggered by a column whose name
\* is in the exclusion set, and no excluded name is registered in pkMap.
ExclusionCorrectness ==
  /\ DOMAIN pkMapOf(parsedTables) \cap IGNORED_FK_COLUMNS = {}
  /\ Inferred => \A k \in 1..Len(edges) : TriggerColumn(edges[k]) \notin IGNORED_FK_COLUMNS

\* COMPANY is a primary key of one table and a column of another table, the
\* inference has run and has linked the two tables by no edge
ExclusionWitness ==
  /\ Inferred
  /\ Len(parsedTables) = 2
  /\ parsedTables[1].id # parsedTables[2].id
  /\ colCOMPANY \in IGNORED_FK_COLUMNS
  /\ colCOMPANY \in PkColumnNames(parsedTables[1]) \cap ColumnNames(parsedTables[2])
  /\ colA \notin ColumnNames(parsedTables[2])
  /\ Len(edges) = 0
(***************************************************************************)
(* Properties of parseSQL.                                                 *)
(***************************************************************************)
LineKinds(choice) == {BodyLines[choice[k]].kind : k \in 1..Len(choice)}

\* every line of the body has balanced parentheses
WellFormed(choice) == LineKinds(choice) \cap {"open", "close"} = {}

\* the names listed by the PRIMARY KEY clauses among the lines
ListedNames(choice) ==
  UNION {BodyLines[choice[k]].listed : k \in {x \in 1..Len(choice) : BodyLines[choice[x]].kind = "pk"}}

\* the names that the first text of the form PRIMARY KEY (...) marks
FirstMarks(choice) ==
  LET M == {k \in 1..Len(choice) : BodyLines[choice[k]].marks # {}}
  IN IF M = {} THEN {} ELSE BodyLines[choice[Min(M)]].marks

\* the tables made so far from the first statement of the input
FirstTables == {k \in 1..Len(tables) : tables[k].id = idT1}

\* C5 as stated: a column is flagged if and only if its name is listed in a
\* PRIMARY KEY clause of its table, whatever the casing, the quoting and the
\* form of the list, and also when there is more than one clause.
PrimaryKeyPropagation ==
  WellFormed(given.lines) =>
    \A k \in FirstTables : \A j \in 1..Len(tables[k].columns) :
      tables[k].columns[j].isPrimaryKey <=>
        tables[k].columns[j].name \in ListedNames(given.lines)

\* C5, amended: a column is flagged if and only if its name is one of the
\* entries of the first text of the body that has the form PRIMARY KEY (...),
\* in any casing and also inside a comment, where an entry is a piece between
\* commas up to the first ')', trimmed and without its backticks and single
\* quotes.  A double-quoted entry, an entry with a prefix length and every
\* later clause flag nothing.
PrimaryKeyOfFirstClause ==
  WellFormed(given.lines) =>
    \A k \in FirstTables : \A j \in 1..Len(tables[k].columns) :
      tables[k].columns[j].isPrimaryKey <=>
        tables[k].columns[j].name \in FirstMarks(given.lines)

\* the columns A and B with the lower-case clause that lists A and 'B': both
\* columns are flagged
PrimaryKeyWitness ==
  /\ given.lines = <<1, 2, 4>>
  /\ \E k \in FirstTables :
        /\ Len(tables[k].columns) = 2
        /\ tables[k].columns[1].name = colA /\ tables[k].columns[1].isPrimaryKey
        /\ tables[k].columns[2].name = colB /\ tables[k].columns[2].isPrimaryKey

\* the column B with a clause for A and a later clause for B: B is not flagged
PrimaryKeyLaterClauseWitness ==
  /\ given.lines = <<2, 3, 4>>
  /\ \E k \in FirstTables :
        /\ Len(tables[k].columns) = 1
        /\ tables[k].columns[1].name = colB /\ ~tables[k].columns[1].isPrimaryKey

\* the block that the last iteration has read
LastBlock == blocks[i]

OpensOf(s) == {k \in 1..Len(s) : s[k] = "("}

ClosesOf(s) == {k \in 1..Len(s) : s[k] = ")"}

\* the nesting counter after the first k characters of a body
Depth(s, k) ==
  1 + Cardinality({j \in OpensOf(s) : j <= k}) - Cardinality({j \in ClosesOf(s) : j <= k})

\* C6: the extracted body is the text strictly between the first '(' of the
\* block and the ')' at which the nesting counter first returns to zero, and
\* the trailing text starts right after that ')'.
BalancedBody ==
  (i >= 2 /\ body # undefined) =>
    \E block \in {LastBlock} :
      \E first \in {k \in OpensOf(block) : \A j \in OpensOf(block) : k <= j} :
        /\ block = SubSeq(block, 1, first) \o body \o <<")">> \o afterBody
        /\ \A k \in ClosesOf(body) : Depth(body, k) >= 1
        /\ Depth(body, Len(body)) = 1

\* a body with the nested arguments of decimal(17, 2) and the clause
\* PRIMARY KEY (A): it runs to the last line, the trailing text follows
BalancedBodyWitness ==
  /\ i = 2
  /\ given.lines = <<1, 2, 3>>
  /\ body = <<"\n">> \o JoinLines(<<1, 2, 3>>, 1)
  /\ afterBody = SubSeq(FirstTrailer, 2, Len(FirstTrailer))
  /\ OpensOf(body) # {}
(***************************************************************************)
(* Properties of the session.                                              *)
(***************************************************************************)
NodeClick == \E n \in 1..Len(nodes) : onNodeClick(n)

\* C7 as stated: the selection changes by a click on a node or on the empty
\* canvas, and by no other click.
SelectionChangesOnlyByClicks ==
  [][selectedNodeId' # selectedNodeId => (NodeClick \/ onPaneClick)]_vars

\* C7, amended: the selection starts as Nothing-Selected; a click on node n
\* leads to Node-Selected(n) whatever was selected, a click on the empty
\* canvas leads to Nothing-Selected, and both are possible in every settled
\* state of the diagram; besides these two clicks the selection changes only
\* to Nothing-Selected, when the tables effect runs after an extraction has
\* installed a schema and when the diagram is taken off the screen.
SelectionMachine ==
  /\ selectedNodeId = null
  /\ [][/\ \A n \in 1..Len(nodes) : onNodeClick(n) => selectedNodeId' = nodes[n].id
        /\ onPaneClick => selectedNodeId' = null
        /\ selectedNodeId' # selectedNodeId =>
             \/ NodeClick
             \/ onPaneClick
             \/ /\ selectedNodeId' = null
                /\ (FlushPassiveEffects /\ tablesEffectPending) \/ ~mounted']_vars
  /\ []((Settled /\ mounted) =>
          /\ ENABLED onPaneClick
          /\ \A n \in 1..Len(nodes) : ENABLED onNodeClick(n))

\* the second node has been clicked and the highlight has settled on it
SelectionWitness ==
  /\ Settled /\ mounted
  /\ Len(nodes) >= 2
  /\ selectedNodeId = nodes[2].id
  /\ nodes[2].selected = "true"

\* a step of an extraction run that installs a schema
InstallStep ==
  \/ /\ AppMountEffect \/ ParseClick \/ ReloadClick
     /\ Len(parseSQLOf(sqlInput)) > 0
  \/ UploadTimeout

NodeCore(n) ==
  [id |-> n.id, position |-> n.position, label |-> n.label, comment |-> n.comment,
   columns |-> n.columns]

EdgeCore(e) ==
  [id |-> e.id, source |-> e.source, target |-> e.target,
   sourceHandle |-> e.sourceHandle, targetHandle |-> e.targetHandle, type |-> e.type]

NodeCores(nds) == [k \in 1..Len(nds) |-> NodeCore(nds[k])]

EdgeCores(eds) == [k \in 1..Len(eds) |-> EdgeCore(eds[k])]

\* C8: an extraction run that installs a schema makes the tables effect run
\* on a diagram that is on the screen; that run leaves exactly the nodes of
\* the tables of the new schema, exactly the edges inferred from it, none of
\* them highlighted, and no selection; the steps that settle the diagram
\* afterwards keep the nodes, the edges and the selection.
ExtractionReplaces ==
  [][/\ InstallStep => (~mounted' \/ tablesEffectPending')
     /\ (FlushPassiveEffects /\ tablesEffectPending) =>
          /\ NodeCores(nodes') = NodeCores(getLayoutedNodes(parsedTables))
          /\ EdgeCores(edges') = EdgeCores(newEdges(parsedTables))
          /\ \A k \in 1..Len(edges') : ~Emphasized(edges'[k]) /\ ~DimmedEdge(edges'[k])
          /\ \A k \in 1..Len(nodes') : nodes'[k].dimmed # "true"
          /\ selectedNodeId' = null
          /\ ~tablesEffectPending'
     /\ (FlushPassiveEffects /\ ~tablesEffectPending) =>
          /\ NodeCores(nodes') = NodeCores(nodes)
          /\ EdgeCores(edges') = EdgeCores(edges)
          /\ selectedNodeId' = selectedNodeId]_vars

\* a schema has been installed while the diagram holds a selection and an
\* edge drawn by the user; the tables effect is about to run
ExtractionWitness ==
  /\ mounted
  /\ tablesEffectPending
  /\ UserEdges # {}
  /\ selectedNodeId # null

\* C9 as stated: in every state the nodes, the edges, the adjacency index and
\* the selection of a diagram on the screen are derived from the current
\* parsedTables.
AtomicReplacement ==
  mounted =>
    /\ NodeCores(nodes) = NodeCores(getLayoutedNodes(parsedTables))
    /\ EdgeCores(SelectSeq(edges, LAMBDA e : e.type # "undefined"))
         = EdgeCores(newEdges(parsedTables))
    /\ adjacency = adjacencyOf(edges)
    /\ selectedNodeId \in {null} \cup {parsedTables[k].id : k \in 1..Len(parsedTables)}

\* a step of an extraction run that yields zero tables
ZeroTableRun ==
  \/ /\ AppMountEffect \/ ParseClick \/ ReloadClick
     /\ Len(parseSQLOf(sqlInput)) = 0
  \/ /\ UploadTimeout
     /\ Len(parseSQLOf(Head(timers))) = 0

\* C10 as stated: every extraction run that yields zero tables, whatever
\* triggered it, sets the no-tables-found message.
EmptyResultReported ==
  [][ZeroTableRun => error' = NoTablesMessage]_vars

\* C11 as stated: every extraction run that fails (here: yields zero tables),
\* whatever triggered it, leaves an error message to show, leaves the schema
\* as it was or empty, and leaves the view mode as it was.
FailedRunKeepsState ==
  [][ZeroTableRun => /\ error' # "null"
                     /\ parsedTables' = parsedTables \/ parsedTables' = << >>
                     /\ viewMode' = viewMode]_vars

\* the fragments that have no table name, no parenthesis or no closing
\* parenthesis up to the next CREATE TABLE
DroppedFragments == {2, 3, 4}

\* C13: a block without a table name, without an opening parenthesis or
\* without a balanced closing parenthesis contributes nothing, and the tables
\* returned are those of the same text without these blocks, in block order.
DroppedBlocksVanish ==
  (/\ Returned
   /\ given.layout = "lines"
   /\ given.extra = 0
   /\ given.before \in DroppedFragments \/ given.between \in DroppedFragments
   /\ given.before \in DroppedFragments \cup {1}
   /\ given.between \in DroppedFragments \cup {1})
  => tables = parseSQL(InputText(given.lines, given.two))

\* a statement without a name stands before the first table, one with an
\* unclosed parenthesis between the two tables, and both tables are returned
DroppedBlocksWitness ==
  /\ Returned
  /\ given.lines = <<2>>
  /\ given.before = 2
  /\ given.between = 4
  /\ Len(tables) = 2
  /\ tables[1].id = idT1
  /\ Len(tables[1].columns) = 1
  /\ tables[2].id = idT2
  /\ Len(blocks) = 5

idA == <<"a">>

\* C14 as stated: a statement CREATE TABLE a LIKE b; yields no table,
\* whatever text follows it before the next CREATE TABLE.
BodilessStatementYieldsNothing ==
  (given.before \in {3, 5} \/ given.between \in {3, 5})
  => \A k \in 1..Len(tables) : tables[k].id # idA

\* the positions of the columns of table t that have the name n
ColumnsNamed(t, n) == {j \in 1..Len(t.columns) : t.columns[j].name = n}

\* the positions of the edges triggered by the column name n
EdgesVia(n) == {k \in 1..Len(edges) : TriggerColumn(edges[k]) = n}

\* C15: with a table t1 whose primary key is A and a table t2 that has one
\* column A which is not a primary key, in either order, exactly one edge is
\* triggered by A, it goes from t2 to t1, and no edge goes from t1 to t2; with
\* no other column in the two tables it is the only edge.
ScenarioB ==
  Inferred =>
    \A p, q \in 1..Len(parsedTables) :
      (/\ Len(parsedTables) = 2
       /\ parsedTables[p].id = idT1
       /\ parsedTables[q].id = idT2
       /\ colA \in PkColumnNames(parsedTables[p])
       /\ colA \notin PkColumnNames(parsedTables[q])
       /\ Cardinality(ColumnsNamed(parsedTables[q], colA)) = 1)
      => /\ Cardinality(EdgesVia(colA)) = 1
         /\ \A k \in EdgesVia(colA) : edges[k].source = idT2 /\ edges[k].target = idT1
         /\ \A k \in 1..Len(edges) : ~(edges[k].source = idT1 /\ edges[k].target = idT2)
         /\ (Len(parsedTables[p].columns) = 1 /\ Len(parsedTables[q].columns) = 1)
              => Len(edges) = 1

\* the schema of the scenario with t2 before t1, after the inference
ScenarioBWitness ==
  /\ Inferred
  /\ Len(parsedTables) = 2
  /\ parsedTables[1].id = idT2
  /\ parsedTables[1].columns = << Column(colA, FALSE) >>
  /\ parsedTables[2].id = idT1
  /\ parsedTables[2].columns = << Column(colA, TRUE) >>
  /\ Len(edges) = 1
  /\ edges[1].source = idT2
  /\ edges[1].target = idT1

ScenarioAText == <<"C","R","E","A","T","E"," ","T","A","B","L","E"," ","t","1"," ","(",BackTick,"A",BackTick," ","i","n","t"," ","N","O","T"," ","N","U","L","L",","," ","P","R","I","M","A","R","Y"," ","K","E","Y"," ","(",BackTick,"A",BackTick,")",")"," ","C","O","M","M","E","N","T","=","'","T","1","'",";">>

\* C16: the statement of Scenario A, written on one line, yields exactly one
\* table t1 with the comment T1 and exactly one column: A, of type int, a
\* primary key, not nullable.  More generally a statement on one line yields
\* at most one table with at most one column, named by the first line part.
ScenarioA ==
  (Returned /\ given.layout = "single" /\ sql # TextNoTable) =>
    /\ Len(tables) <= 1
    /\ \A k \in 1..Len(tables) :
          /\ tables[k].id = idT1
          /\ Len(tables[k].columns) <= 1
          /\ \A j \in 1..Len(tables[k].columns) :
                tables[k].columns[j].name = BodyLines[given.lines[1]].name
    /\ given.lines = <<1, 3>> =>
          tables = << [id      |-> idT1,
                       name    |-> idT1,
                       comment |-> <<"T", "1">>,
                       columns |-> << [name         |-> <<"A">>,
                                       type         |-> <<"i", "n", "t">>,
                                       comment      |-> << >>,
                                       isPrimaryKey |-> TRUE,
                                       isNullable   |-> FALSE] >>] >>

\* parseSQL has returned from the statement of Scenario A
ScenarioAWitness ==
  /\ Returned
  /\ sql = ScenarioAText
  /\ Len(tables) = 1
  /\ Len(tables[1].columns) = 1
  /\ tables[1].columns[1].isPrimaryKey

colF == <<"F">>

\* the type the further line e is written with
WrittenType(e) ==
  IF ExtraLines[e].head = << >> THEN strUnknown
  ELSE ExtraLines[e].head \o ExtraLines[e].group

\* the further lines whose argument group holds a parenthesis of its own
NestedGroups == {e \in 1..Len(ExtraLines) : \E p \in 2..Len(ExtraLines[e].group) : ExtraLines[e].group[p] = "("}

\* C17 as stated: the type of a column is the type word together with its
\* whole argument group, and unknown when the text after the name does not
\* start with a word.
TypeCapture ==
  given.extra # 0 =>
    \A k \in 1..Len(tables) : \A j \in ColumnsNamed(tables[k], colF) :
      tables[k].columns[j].type = WrittenType(given.extra)

\* the same for the argument groups that hold no parenthesis of their own
TypeCaptureOfFlatGroups ==
  (given.extra # 0 /\ given.extra \notin NestedGroups) =>
    \A k \in 1..Len(tables) : \A j \in ColumnsNamed(tables[k], colF) :
      tables[k].columns[j].type = WrittenType(given.extra)

TypeCaptureFlatWitness ==
  /\ Returned
  /\ given.extra = 2
  /\ Len(tables) = 1
  /\ \E j \in ColumnsNamed(tables[1], colF) :
        tables[1].columns[j].type = <<"d","e","c","i","m","a","l","(","1","7",","," ","2",")">>

\* C18: a call of parseSQL on a text returns what the earlier calls on that
\* text returned, whatever calls were made in between: the tables that the
\* first call installed, and no table when the first call found none.
Determinism ==
  (Returned /\ sql # TextNoTable) =>
    /\ viewMode = "EDITOR" => tables = parsedTables
    /\ (viewMode = "SQL_INPUT" /\ error = NoTablesMessage) => tables = << >>

\* the text with the columns A of type int has been parsed and installed, a
\* text without tables has been parsed and reported, and the first text has
\* been parsed again
DeterminismWitness ==
  /\ Returned
  /\ sql # TextNoTable
  /\ given.lines = <<1>>
  /\ given.two
  /\ viewMode = "EDITOR"
  /\ error = NoTablesMessage
  /\ Len(tables) = 2

\* the tables of the schema that declare n as a primary-key column
Declaring(n) == {k \in 1..Len(parsedTables) : n \in PkColumnNames(parsedTables[k])}

\* the column names that the key-provider mapping registers
Registrable ==
  {n \in UNION {PkColumnNames(parsedTables[k]) : k \in 1..Len(parsedTables)} :
     n \notin IGNORED_FK_COLUMNS /\ toUpperCase(n) # strID}

\* the owner of a registered name: cif_client for its primary key CLIENT_NO,
\* else the first table in schema order that declares the name
Owner(n) ==
  IF n = strCLIENT_NO /\ \E k \in Declaring(n) : parsedTables[k].name = strCifClient
  THEN strCifClient
  ELSE parsedTables[Min(Declaring(n))].id

\* C19: the key-provider mapping registers exactly the primary-key names that
\* are neither excluded nor ID; the owner of a name is the first table in
\* schema order that declares it, except that cif_client owns its primary key
\* CLIENT_NO wherever it stands; every edge targets the owner of its column.
KeyOwnership ==
  Inferred =>
    /\ pkMapOf(parsedTables) = [n \in Registrable |-> Owner(n)]
    /\ \A k \in 1..Len(edges) :
          /\ TriggerColumn(edges[k]) \in Registrable
          /\ edges[k].target = Owner(TriggerColumn(edges[k]))

\* t1 declares the primary key CLIENT_NO before cif_client does: the edge
\* goes from t1 to cif_client
KeyOwnershipWitness ==
  /\ Inferred
  /\ Len(parsedTables) = 2
  /\ parsedTables[1].id = idT1
  /\ parsedTables[2].id = strCifClient
  /\ Declaring(strCLIENT_NO) = {1, 2}
  /\ Len(edges) = 1
  /\ edges[1].source = idT1
  /\ edges[1].target = strCifClient

\* t1 and t2 declare the primary key A: t1, the first, owns it
KeyOwnershipFirstWitness ==
  /\ Inferred
  /\ Len(parsedTables) = 2
  /\ parsedTables[1].id = idT1
  /\ parsedTables[2].id = idT2
  /\ Declaring(colA) = {1, 2}
  /\ \E k \in 1..Len(edges) : edges[k].source = idT2 /\ edges[k].target = idT1

\* the positions (table, column) whose column name has an owner other than
\* the table
MatchingPairs ==
  {m \in UNION {{<<k, j>> : j \in 1..Len(parsedTables[k].columns)} : k \in 1..Len(parsedTables)} :
     /\ parsedTables[m[1]].columns[m[2]].name \in Registrable
     /\ Owner(parsedTables[m[1]].columns[m[2]].name) # parsedTables[m[1]].id}

\* the rank of a position in schema order, then column order
RankOf(m) ==
  Cardinality({n \in MatchingPairs : n[1] < m[1] \/ (n[1] = m[1] /\ n[2] <= m[2])})

\* C20: the edge list holds exactly one edge for each position (table t,
\* column c) where the name of c has an owner that is not t, in schema order
\* then column order, from t to the owner, with no edge left out or merged.
EdgePerMatchingColumn ==
  Inferred =>
    /\ Len(edges) = Cardinality(MatchingPairs)
    /\ \A m \in MatchingPairs :
          \E e \in {edges[RankOf(m)]}, t \in {parsedTables[m[1]]},
             n \in {parsedTables[m[1]].columns[m[2]].name} :
            /\ e.source = t.id
            /\ e.target = Owner(n)
            /\ e.sourceHandle = n \o <<"-","s","o","u","r","c","e">>
            /\ e.targetHandle = n \o <<"-","t","a","r","g","e","t">>
            /\ e.id = <<"e","-">> \o t.id \o <<"-">> \o n \o <<"-">> \o Owner(n)

\* t1 owns A and B, and t2 has the columns B and A: two edges from t2 to t1,
\* the one of B first
EdgePerMatchingColumnWitness ==
  /\ Inferred
  /\ Len(parsedTables) = 2
  /\ parsedTables[1].id = idT1
  /\ parsedTables[2].id = idT2
  /\ Len(edges) = 2
  /\ edges[1].source = idT2 /\ edges[1].target = idT1 /\ TriggerColumn(edges[1]) = colB
  /\ edges[2].source = idT2 /\ edges[2].target = idT1 /\ TriggerColumn(edges[2]) = colA

\* t2 declares the primary key A, which t1 owns: an edge from t2 to t1
EdgeFromOwnPrimaryKeyWitness ==
  /\ Inferred
  /\ Len(parsedTables) = 2
  /\ parsedTables[1].id = idT1
  /\ parsedTables[2].id = idT2
  /\ parsedTables[2].columns = << Column(colA, TRUE) >>
  /\ Len(edges) = 1
  /\ edges[1].source = idT2
  /\ TriggerColumn(edges[1]) = colA

\* the ids that some current edge joins with the id a, in either direction
Joined(a) ==
  {edges[k].target : k \in {j \in 1..Len(edges) : edges[j].source = a}}
  \cup {edges[k].source : k \in {j \in 1..Len(edges) : edges[j].target = a}}

\* C21: on a displayed diagram the memoised fingerprint is the one of the
\* current edges, and the memoised adjacency maps exactly the ids that are an
\* endpoint of a current edge, each to the ids a current edge joins it with.
AdjacencyNeverStale ==
  mounted =>
    /\ topologyFingerprint = topologyFingerprintOf(edges)
    /\ DOMAIN adjacency = {edges[k].source : k \in 1..Len(edges)}
                             \cup {edges[k].target : k \in 1..Len(edges)}
    /\ \A a \in DOMAIN adjacency : adjacency[a] = Joined(a)

\* the user has drawn an edge, a node is selected, the highlight has restyled
\* the edges without changing the fingerprint, and the index has three ids
AdjacencyWitness ==
  /\ mounted
  /\ Settled
  /\ UserEdges # {}
  /\ selectedNodeId # null
  /\ \E k \in 1..Len(edges) : Emphasized(edges[k])
  /\ Cardinality(DOMAIN adjacency) >= 3

\* C22 as stated: in every settled state an edge that is not dimmed is
\* emphasized, also while nothing is selected.
NotDimmedIsEmphasized ==
  (Settled /\ mounted) =>
    \A k \in 1..Len(edges) : ~DimmedEdge(edges[k]) => Emphasized(edges[k])

\* C22: in every settled state an edge is never both dimmed and emphasized;
\* while a table is selected it is one of the two, and while nothing is
\* selected it is neither, with the plain stroke.
EdgeStates ==
  (Settled /\ mounted) =>
    \A k \in 1..Len(edges) :
      /\ ~(DimmedEdge(edges[k]) /\ Emphasized(edges[k]))
      /\ selectedNodeId # null => (DimmedEdge(edges[k]) \/ Emphasized(edges[k]))
      /\ selectedNodeId = null =>
           /\ ~DimmedEdge(edges[k])
           /\ ~Emphasized(edges[k])
           /\ edges[k].stroke = "#cbd5e1"

\* nothing is selected and the highlight has run: it has set the opacity 1
\* and the plain stroke on an edge
EdgeStatesWitness ==
  /\ Settled /\ mounted
  /\ selectedNodeId = null
  /\ \E k \in 1..Len(edges) :
        edges[k].opacity = "1" /\ edges[k].animated = "null" /\ edges[k].stroke = "#cbd5e1"

\* C23 as stated: the columns of the first table are the columns declared by
\* the body lines that start with an identifier which is not a structural
\* keyword, one per line and in line order.
GenuineLinesExtracted ==
  (/\ Returned /\ sql # TextNoTable
   /\ given.named # 0
   /\ \A k \in 1..Len(given.lines) : BodyLines[given.lines[k]].kind \in {"col", "pk", "other"}) =>
    /\ Len(tables) = 1
    /\ [j \in 1..Len(tables[1].columns) |-> tables[1].columns[j].name]
         = (IF given.lines # << >> /\ BodyLines[given.lines[1]].kind = "col"
            THEN <<BodyLines[given.lines[1]].name>> ELSE << >>)
           \o (IF NamedLines[given.named].genuine
               THEN <<NamedLines[given.named].name>> ELSE << >>)

\* the same for the further lines that do not start with the letters of a
\* skipped prefix
GenuineLinesExtractedUnlessPrefixed ==
  (/\ Returned /\ sql # TextNoTable
   /\ given.named # 0
   /\ ~SkippedLine(NamedLines[given.named].text) \/ ~NamedLines[given.named].genuine
   /\ \A k \in 1..Len(given.lines) : BodyLines[given.lines[k]].kind \in {"col", "pk", "other"}) =>
    /\ Len(tables) = 1
    /\ [j \in 1..Len(tables[1].columns) |-> tables[1].columns[j].name]
         = (IF given.lines # << >> /\ BodyLines[given.lines[1]].kind = "col"
            THEN <<BodyLines[given.lines[1]].name>> ELSE << >>)
           \o (IF NamedLines[given.named].genuine
               THEN <<NamedLines[given.named].name>> ELSE << >>)

\* no column of an extracted table is named by a structural keyword
NoKeywordColumn ==
  \A k \in 1..Len(tables) : \A j \in 1..Len(tables[k].columns) :
    toUpperCase(tables[k].columns[j].name) \notin KeywordNames

\* C24: a click on a node, a click on the empty canvas and a run of the
\* highlight effect alone leave the installed schema, the id, position,
\* label, comment and columns of every node, and the id, the endpoints, the
\* handles (which name the triggering column) and the type of every edge as
\* they were; the order and the number of nodes and of edges do not change.
HighlightFrame ==
  [][(\/ NodeClick
      \/ onPaneClick
      \/ ~tablesEffectPending /\ FlushPassiveEffects) =>
        /\ parsedTables' = parsedTables
        /\ NodeCores(nodes') = NodeCores(nodes)
        /\ EdgeCores(edges') = EdgeCores(edges)]_vars

\* the highlight has run on a selection: a node with columns is dimmed, an
\* edge is dimmed and another one is emphasized
HighlightFrameWitness ==
  /\ Settled /\ mounted
  /\ selectedNodeId # null
  /\ \E k \in 1..Len(nodes) : nodes[k].dimmed = "true" /\ Len(nodes[k].columns) > 0
  /\ \E k \in 1..Len(edges) : DimmedEdge(edges[k])
  /\ \E k \in 1..Len(edges) : Emphasized(edges[k])

\* C25: a run of the effects that holds the highlight effect alone leaves the
\* topology fingerprint and the adjacency index as they were and schedules
\* no further run; a run that holds the tables effect schedules at most one
\* further run, of the highlight effect alone; so the effects run at most
\* twice after an event.  In the state a run of the highlight effect has
\* settled, one more run of its two updater functions changes no node and no
\* edge.
HighlightQuiesces ==
  [][FlushPassiveEffects =>
       /\ ~tablesEffectPending'
       /\ ~tablesEffectPending =>
            /\ topologyFingerprint' = topologyFingerprint
            /\ adjacency' = adjacency
            /\ ~highlightEffectPending'
       /\ (highlightEffectPending /\ ~highlightEffectPending') =>
            (HighlightNodes(nodes) = nodes /\ HighlightEdges(edges) = edges)']_vars

\* the effects have run again after the user has drawn an edge while a table
\* is selected: the edge drawn has the style of the highlight
HighlightQuiescesWitness ==
  /\ Settled /\ mounted
  /\ selectedNodeId # null
  /\ \E k \in 1..Len(nodes) : nodes[k].selected = "true"
  /\ \E k \in UserEdges : edges[k].opacity \in {"0.2", "1"} /\ edges[k].strokeWidth \in {1, 3}

\* C26 as stated: a click on Reload Default Data leaves INITIAL_SQL as the
\* input text and the result of parseSQL on INITIAL_SQL as the installed
\* schema, with no message.
ReloadParsesDefault ==
  [][(sqlInput' = INITIAL_SQL /\ Settled /\ ReloadClick) =>
       /\ parsedTables' = parseSQLOf(INITIAL_SQL)
       /\ error' = "null"]_vars

\* C27 as stated: the callback of an upload that fires after Parse &
\* Visualize has installed a schema (the most recent request is that Parse,
\* and it left no message) leaves the schema of that Parse.
UploadKeepsLaterParse ==
  [][(/\ Len(timers) > 0
      /\ lastRequest = "parse"
      /\ error = "null"
      /\ UploadTimeout) => parsedTables' = parsedTables]_vars

\* C28 as stated: every step that installs a new schema with tables leaves
\* no message, so that a message is there only if the most recent extraction
\* run has failed.
InstallClearsMessage ==
  [][(parsedTables' # parsedTables /\ Len(parsedTables') > 0) => error' = "null"]_vars

\* C29: in every settled state the selected id is none, or it is the id of a
\* node of the diagram and of a table of the installed schema; the run of the
\* tables effect that follows a schema replacement leaves no selection, also
\* when a table of the new schema has the id that was selected.
SelectionRefersToDisplayedTable ==
  /\ [](Settled =>
          \/ selectedNodeId = null
          \/ /\ mounted
             /\ \E k \in 1..Len(nodes) : nodes[k].id = selectedNodeId
             /\ \E k \in 1..Len(parsedTables) : parsedTables[k].id = selectedNodeId)
  /\ [][(tablesEffectPending /\ FlushPassiveEffects) => selectedNodeId' = null]_vars

\* an upload has replaced the schema while a table is selected whose id is
\* also the id of a table of the new schema; the tables effect is about to run
SelectionSameIdWitness ==
  /\ mounted /\ tablesEffectPending
  /\ lastRequest = "upload"
  /\ selectedNodeId # null
  /\ \E k \in 1..Len(parsedTables) : parsedTables[k].id = selectedNodeId
  /\ \E k \in 1..Len(nodes) : nodes[k].id = selectedNodeId /\ nodes[k].selected = "true"

\* C30: every inferred edge goes from a table of the schema that has a column
\* of the triggering name to a table of the schema in which a column of that
\* name is a primary key; the triggering name is not ID in any casing; a
\* schema in which no column is a primary key yields no edge.
EdgeSoundness ==
  Inferred =>
    /\ \A k \in 1..Len(edges) :
          /\ \E p \in 1..Len(parsedTables) :
                /\ parsedTables[p].id = edges[k].source
                /\ TriggerColumn(edges[k]) \in ColumnNames(parsedTables[p])
          /\ \E q \in 1..Len(parsedTables) :
                /\ parsedTables[q].id = edges[k].target
                /\ TriggerColumn(edges[k]) \in PkColumnNames(parsedTables[q])
          /\ toUpperCase(TriggerColumn(edges[k])) # strID
          /\ edges[k].targetHandle = TriggerColumn(edges[k]) \o <<"-","t","a","r","g","e","t">>
    /\ (\A p \in 1..Len(parsedTables) : PkColumnNames(parsedTables[p]) = {}) => edges = << >>

\* the second table has the two primary-key columns of the first one as
\* plain columns: two edges, triggered by B and by A, go to the first table
EdgeSoundnessWitness ==
  /\ Inferred
  /\ Len(parsedTables) = 2
  /\ Len(edges) = 2
  /\ TriggerColumn(edges[1]) = colB /\ TriggerColumn(edges[2]) = colA
  /\ edges[1].target = parsedTables[1].id /\ edges[2].target = parsedTables[1].id
  /\ PkColumnNames(parsedTables[2]) = {}
====
